---------------------------- MODULE Spec2Model ----------------------------
(***************************************************************************)
(* State-machine model of the per-client protocol session `Proxy` of the   *)
(* wayland frontend (cognitive/wayland_frontend/src/proxy.rs): its tables,  *)
(* its Facade operations and its Gateway callbacks, together with what the *)
(* session asks of the coordinator and the mediator and what it sends to   *)
(* the client.                                                             *)
(*                                                                         *)
(* Option<T> is modelled as a set with at most one element: None is {} and *)
(* Some(x) is {x}.  A HashMap / BTreeMap is a function whose DOMAIN is the  *)
(* set of keys present.                                                    *)
(*                                                                         *)
(* Every action records the operation it performed in `op`, the calls it   *)
(* made on the coordinator and on the mediator, in order, in `calls`, and  *)
(* the messages it sent on the socket, in order, in `sent`.                *)
(***************************************************************************)
EXTENDS Integers, Sequences, FiniteSets, TLC

--------------------------------------------------------------------------
(* Bounds of the model *)

MaxGlobals == 4
NumCaps == 2
MaxOid == 2
MaxBuf == 2
MaxShotBuf == 1
MaxOut == 1
MaxSid == 1
MaxPools == 1
MaxPending == 2
MaxSurfaces == 2
MaxCoord == 1
MaxInputs == 2
MaxDelta == 5
MaxSerial == 3

(* Program constants *)

NullOid == 0
InvalidSid == 0
ClientId == 1

--------------------------------------------------------------------------
(* Value sets *)

None == {}
Some(x) == {x}
IsSome(o) == o # {}
Unwrap(o) == CHOOSE x \in o : TRUE

Caps == 1 .. NumCaps
OutputInfos == 1 .. NumCaps
Oids == 1 .. MaxOid
(* buffer objects the client creates, and one it never creates *)
BufOids == 1 .. MaxBuf
UnknownBuf == MaxBuf + 1
(* buffer objects the client creates where only screenshots are taken *)
ShotBufOids == 1 .. MaxShotBuf
(* output objects the client binds, and one it never binds *)
OutOids == 1 .. MaxOut
UnknownOut == MaxOut + 1
(* the domain output an output object is bound for *)
OutputIdOf(oid) == MaxOut + oid
Sids == 1 .. MaxSid
PoolIds == 1 .. MaxPools

(* HashMap::insert / BTreeMap::insert: adds the key or replaces its value *)
MapInsert(map, k, v) == [x \in (DOMAIN map) \cup {k} |-> IF x = k THEN v ELSE map[x]]
EmptyMap == [x \in {} |-> 0]

Call(name, a, b) == [op |-> name, a |-> a, b |-> b, pos |-> <<>>]
(* a coordinator call that carries a Position or a Size *)
CallAt(name, a, pos) == [op |-> name, a |-> a, b |-> 0, pos |-> pos]
Msg(name, to, arg) ==
    [msg |-> name, to |-> to, arg |-> arg, size |-> <<>>, states |-> <<>>, axis |-> ""]
(* a configure message: it carries a size and, for a toplevel, its states *)
MsgConfigure(name, to, size, states) ==
    [msg |-> name, to |-> to, arg |-> 0, size |-> size, states |-> states, axis |-> ""]
(* a pointer axis message: it names the axis it is about *)
MsgAxis(name, to, axis_type, value) ==
    [msg |-> name, to |-> to, arg |-> value, size |-> <<>>, states |-> <<>>, axis |-> axis_type]
OpR(name, a, b, c, res) == [name |-> name, a |-> a, b |-> b, c |-> c, res |-> res]
Op(name, a, b, c) == OpR(name, a, b, c, "")
Count(seq, name) == Cardinality({i \in 1 .. Len(seq) : seq[i].op = name})
(* how an Option<id> argument or result is written in `calls` and `op` *)
OptArg(o) == IF o = None THEN -1 ELSE Unwrap(o)

(* the orders in which iterating a HashSet or HashMap may visit the elements S *)
Orders(S) ==
    {f \in [1 .. Cardinality(S) -> S] : \A i, j \in 1 .. Cardinality(S) : f[i] = f[j] => i = j}

--------------------------------------------------------------------------
VARIABLES
    (* Proxy *)
    globals,                  \* BTreeMap<u32, Global>
    last_global_id,           \* u32
    memory_pools,             \* HashSet<MemoryPoolId>
    sid_to_surface_info_dict, \* HashMap<SurfaceId, SurfaceInfo>
    buffer_oid_to_info_dict,  \* HashMap<ObjectId, BufferInfo>
    output_oid_to_id,         \* HashMap<ObjectId, i32>
    screenshooter_oid,        \* Option<ObjectId>
    screenshot_memory,        \* Option<Memory>, a Memory named by the pool it came from
    (* collaborators, as far as the session's calls change them *)
    coord_pools,              \* memory pools alive in the coordinator
    coord_next_mpid,          \* next pool id the coordinator hands out
    med_screenshoter,         \* mediator's current screenshot requester, Option<client id>
    surface_oid_to_sid_dict,  \* HashMap<ObjectId, SurfaceId>
    pointer_oids,             \* HashSet<ObjectId>
    keyboard_oids,            \* HashSet<ObjectId>
    coord_surfaces,           \* surfaces alive in the coordinator
    coord_next_sid,           \* next surface id the coordinator hands out
    med_sids,                 \* surfaces the mediator relates to this client
    phase,                    \* "alive", "terminated" (terminate ran), "dropped"
    transfers,                \* HashMap<ObjectId, Transfer>
    data_source_oid,          \* Option<ObjectId>, the active transfer source
    med_transfer_offerer,     \* mediator's current transfer offerer, Option<client id>
    coord_transfer,           \* coordinator's shared transfer slot, Option<Transfer>
    next_serial,              \* wl::Socket: the serial get_next_serial answers next
    (* InnerInputManager *)
    modes,                    \* Vec<Mode>
    code,                     \* InputCode of the last catch
    command,                  \* Command
    previous_modification,    \* binding_functions::PreviousModification
    (* observation of the last operation *)
    op, calls, sent,
    (* history *)
    regLog,                   \* capabilities registered, in call order
    outstanding,              \* number of captures asked of the coordinator and not yet answered
    requesters,               \* requester objects of the unanswered captures, oldest first
    latest,                   \* buffer object -> <<kind, id>> of its latest successful create
    attached                  \* surfaces that had a non-null buffer attached

globalVars == <<globals, last_global_id, regLog>>
poolVars == <<memory_pools, coord_pools, coord_next_mpid>>
bufVars == <<buffer_oid_to_info_dict, latest>>
bindVars == <<surface_oid_to_sid_dict, coord_surfaces, coord_next_sid, med_sids>>
inputVars == <<pointer_oids, keyboard_oids>>
surfVars == <<sid_to_surface_info_dict, attached, bindVars, inputVars, phase>>
shotVars == <<output_oid_to_id, screenshooter_oid, screenshot_memory, med_screenshoter, outstanding, requesters>>
transferVars == <<transfers, data_source_oid, med_transfer_offerer, coord_transfer>>
managerVars == <<modes, code, command, previous_modification>>
obsVars == <<op, calls, sent>>
vars == <<globalVars, poolVars, bufVars, surfVars, shotVars, transferVars, next_serial,
          managerVars, obsVars>>

(* Mode::new *)
ModeNew(active, name, default_executor) ==
    [active |-> active, name |-> name, bindings |-> EmptyMap,
     default_executor |-> default_executor]

(* binding_functions::Nop, the default executor of the normal mode *)
Nop == 0

(* InnerInputManager::new: the modes before any binding is added *)
InitialModes ==
    <<ModeNew(TRUE, "common", None), ModeNew(TRUE, "insert", None),
      ModeNew(FALSE, "normal", Some(Nop))>>

(* Command::default *)
CommandDefault == [action |-> "None", direction |-> "None", magnitude |-> 0, string |-> ""]

(* Proxy::new, InnerInputManager::new *)
Init ==
    /\ globals = EmptyMap
    /\ last_global_id = 0
    /\ memory_pools = {}
    /\ sid_to_surface_info_dict = EmptyMap
    /\ buffer_oid_to_info_dict = EmptyMap
    /\ output_oid_to_id = EmptyMap
    /\ screenshooter_oid = None
    /\ screenshot_memory = None
    /\ coord_pools = {}
    /\ coord_next_mpid = 1
    /\ med_screenshoter = None
    /\ surface_oid_to_sid_dict = EmptyMap
    /\ pointer_oids = {}
    /\ keyboard_oids = {}
    /\ coord_surfaces = {}
    /\ coord_next_sid = 1
    /\ med_sids = {}
    /\ phase = "alive"
    /\ transfers = EmptyMap
    /\ data_source_oid = None
    /\ med_transfer_offerer = None
    /\ coord_transfer = None
    /\ next_serial = 0
    /\ modes = InitialModes
    /\ code = 0
    /\ command = CommandDefault
    /\ previous_modification = "None"
    /\ op = Op("new", 0, 0, 0)
    /\ calls = <<>>
    /\ sent = <<>>
    /\ regLog = <<>>
    /\ outstanding = 0
    /\ requesters = <<>>
    /\ latest = EmptyMap
    /\ attached = {}

--------------------------------------------------------------------------
(* Global registry *)

Global(name, cap) == [name |-> name, cap |-> cap]

(* protocol::output::get_global(output_info): the output capability of a display *)
OutputGlobal(info) == Global(0, NumCaps + info)

(* a register_global that forgets to advance the counter *)
NextGlobalId_stuck(last) == IF last = 0 THEN 1 ELSE last

(* the name register_global assigns: last_global_id += 1.  The counter is a u32;
   its wrap-around lies 2^32 registrations away, outside every bound used here *)
NextGlobalId(last) == last + 1

(* Proxy::register_global *)
register_global(global) ==
    /\ last_global_id' = NextGlobalId(last_global_id)
    /\ globals' = MapInsert(globals, last_global_id', Global(last_global_id', global.cap))
    /\ regLog' = Append(regLog, global.cap)

(* Proxy::get_globals, enumerated as a BTreeMap iterates: ascending key *)
RECURSIVE Ascending(_, _)
Ascending(map, keys) ==
    IF keys = {} THEN <<>>
    ELSE LET k == CHOOSE x \in keys : \A y \in keys : x <= y
         IN <<map[k]>> \o Ascending(map, keys \ {k})
get_globals == Ascending(globals, DOMAIN globals)

RegisterGlobal ==
    \E cap \in Caps :
        /\ Len(regLog) < MaxGlobals
        /\ register_global(Global(0, cap))
        /\ op' = Op("register_global", cap, 0, 0)
        /\ calls' = <<>>
        /\ sent' = <<>>
        /\ UNCHANGED <<poolVars, bufVars, surfVars, shotVars, transferVars, next_serial, managerVars>>

(* Gateway::on_display_created *)
OnDisplayCreated ==
    \E info \in OutputInfos :
        /\ Len(regLog) < MaxGlobals
        /\ register_global(OutputGlobal(info))
        /\ op' = Op("on_display_created", info, 0, 0)
        /\ calls' = <<>>
        /\ sent' = <<>>
        /\ UNCHANGED <<poolVars, bufVars, surfVars, shotVars, transferVars, next_serial, managerVars>>

NextGlobals == RegisterGlobal \/ OnDisplayCreated
SpecGlobals == Init /\ [][NextGlobals]_vars

(* C1: after N registrations (register_global directly or through
   on_display_created) get_globals enumerates exactly N entries, named
   1, 2, ..., N in ascending order, the i-th being the capability of the i-th
   registration; the names are pairwise distinct, none is assigned twice. *)
C1_EnumerationInCallOrder ==
    /\ Len(get_globals) = Len(regLog)
    /\ \A i \in 1 .. Len(regLog) : get_globals[i] = Global(i, regLog[i])
    /\ \A i, j \in 1 .. Len(get_globals) :
           get_globals[i].name = get_globals[j].name => i = j
    /\ last_global_id = Len(regLog)

C1_Witness ==
    /\ Len(regLog) = MaxGlobals
    /\ op.name = "on_display_created"
    /\ \E i \in 1 .. Len(regLog) : regLog[i] \in Caps
    /\ \E i \in 1 .. Len(regLog) : regLog[i] # regLog[1]

--------------------------------------------------------------------------
(* Memory pools and shared-memory buffers *)

(* BufferInfo::new_shm, BufferInfo::new_egl_image, BufferInfo::new_dmabuf *)
new_shm(mpid, mvid) == [kind |-> "Shm", mpid |-> mpid, id |-> mvid]
new_egl_image(eiid) == [kind |-> "EglImage", mpid |-> 0, id |-> eiid]
new_dmabuf(dbid) == [kind |-> "Dmabuf", mpid |-> 0, id |-> dbid]

(* coordinator.create_memory_view: a view id, or None when the coordinator
   refuses (always when the pool does not exist).  Ids are opaque to the
   session; the model names a view after its pool. *)
CoordCreateMemoryView(mpid) ==
    IF mpid \in coord_pools THEN {Some(mpid), None} ELSE {None}

(* coordinator.destroy_memory_pool: the pool's memory when the pool existed and
   its memory was not in use, None otherwise *)
CoordDestroyMemoryPool(mpid) ==
    IF mpid \in coord_pools THEN {Some(mpid), None} ELSE {None}

(* Facade::create_memory_pool *)
CreateMemoryPool ==
    /\ coord_next_mpid <= MaxPools
    /\ LET mpid == coord_next_mpid
       IN /\ memory_pools' = memory_pools \cup {mpid}
          /\ coord_pools' = coord_pools \cup {mpid}
          /\ coord_next_mpid' = coord_next_mpid + 1
          /\ op' = Op("create_memory_pool", mpid, 0, 0)
          /\ calls' = <<Call("create_memory_pool", mpid, 0)>>
    /\ sent' = <<>>
    /\ UNCHANGED <<globalVars, managerVars, transferVars, next_serial, bufVars, surfVars, shotVars>>

(* a create_* that keeps the entry a buffer object already has *)
record_buffer_keepFirst(buffer_oid, result, info) ==
    IF result # None
    THEN /\ buffer_oid_to_info_dict' =
               IF buffer_oid \in DOMAIN buffer_oid_to_info_dict
               THEN buffer_oid_to_info_dict
               ELSE MapInsert(buffer_oid_to_info_dict, buffer_oid, info)
         /\ latest' = MapInsert(latest, buffer_oid, <<info.kind, info.id>>)
    ELSE UNCHANGED bufVars

(* the table after a create_* whose coordinator call returned `result`; in
   `calls` the b field of a create_* call is what the coordinator returned and
   in `op` the c field is what the operation returns (-1 for None) *)
record_buffer(buffer_oid, result, info) ==
    IF result # None
    THEN /\ buffer_oid_to_info_dict' = MapInsert(buffer_oid_to_info_dict, buffer_oid, info)
         /\ latest' = MapInsert(latest, buffer_oid, <<info.kind, info.id>>)
    ELSE UNCHANGED bufVars

(* Facade::create_memory_view, for the buffer objects `bufs` *)
CreateMemoryView(bufs) ==
    \E mpid \in PoolIds, buffer_oid \in bufs :
        \E result \in CoordCreateMemoryView(mpid) :
            /\ record_buffer(buffer_oid, result, new_shm(mpid, OptArg(result)))
            /\ calls' = <<Call("create_memory_view", mpid, OptArg(result))>>
            /\ op' = Op("create_memory_view", mpid, buffer_oid, OptArg(result))
            /\ sent' = <<>>
            /\ UNCHANGED <<globalVars, managerVars, transferVars, next_serial, poolVars, surfVars, shotVars>>

(* coordinator.create_egl_image, coordinator.import_dmabuf: an id, or None when
   the coordinator refuses.  Ids are opaque to the session; the model uses one
   image id, different from every view id. *)
CoordCreateImage == {Some(MaxPools + 1), None}

(* Facade::create_egl_image, for the buffer objects `bufs` *)
CreateEglImageOf(bufs) ==
    \E buffer_oid \in bufs :
        \E eiid \in CoordCreateImage :
            /\ record_buffer(buffer_oid, eiid, new_egl_image(OptArg(eiid)))
            /\ calls' = <<Call("create_egl_image", 0, OptArg(eiid))>>
            /\ op' = Op("create_egl_image", 0, buffer_oid, OptArg(eiid))
            /\ sent' = <<>>
            /\ UNCHANGED <<globalVars, managerVars, transferVars, next_serial, poolVars, surfVars, shotVars>>

CreateEglImage == CreateEglImageOf(BufOids)

(* Facade::import_dmabuf *)
ImportDmabuf ==
    \E buffer_oid \in BufOids :
        \E dbid \in CoordCreateImage :
            /\ record_buffer(buffer_oid, dbid, new_dmabuf(OptArg(dbid)))
            /\ calls' = <<Call("import_dmabuf", 0, OptArg(dbid))>>
            /\ op' = Op("import_dmabuf", 0, buffer_oid, OptArg(dbid))
            /\ sent' = <<>>
            /\ UNCHANGED <<globalVars, managerVars, transferVars, next_serial, poolVars, surfVars, shotVars>>

--------------------------------------------------------------------------
(* Surfaces: attach and frame *)

(* SurfaceInfo::new *)
SurfaceInfoNew ==
    [surface_oid |-> None, shell_surface_oid |-> None, buffer_oid |-> None, frame_oid |-> None]

(* relate_sid_with!: sets the member of an existing record only when it is None,
   creates the record when there is none *)
relate_sid_with(member, dict, sid, obj) ==
    IF sid \in DOMAIN dict
    THEN IF dict[sid][member] = None
         THEN [dict EXCEPT ![sid][member] = Some(obj)]
         ELSE dict
    ELSE MapInsert(dict, sid, [SurfaceInfoNew EXCEPT ![member] = Some(obj)])

(* Proxy::relate_sid_with_buffer *)
relate_sid_with_buffer(dict, sid, oid) == relate_sid_with("buffer_oid", dict, sid, oid)

(* an unrelate_sid_with! that empties the whole record *)
unrelate_sid_with_wholeRecord(member, dict, sid) ==
    IF sid \in DOMAIN dict THEN [dict EXCEPT ![sid] = SurfaceInfoNew] ELSE dict

(* unrelate_sid_with! *)
unrelate_sid_with(member, dict, sid) ==
    IF sid \in DOMAIN dict THEN [dict EXCEPT ![sid][member] = None] ELSE dict

(* a relate_sid_with_surface that files the surface object under the wrong member *)
relate_sid_with_surface_asFrame(dict, sid, oid) == relate_sid_with("frame_oid", dict, sid, oid)

(* Proxy::relate_sid_with_surface, relate_sid_with_shell_surface, relate_sid_with_frame,
   unrelate_sid_with_shell_surface *)
relate_sid_with_surface(dict, sid, oid) == relate_sid_with("surface_oid", dict, sid, oid)
relate_sid_with_shell_surface(dict, sid, oid) == relate_sid_with("shell_surface_oid", dict, sid, oid)
relate_sid_with_frame(dict, sid, oid) == relate_sid_with("frame_oid", dict, sid, oid)
unrelate_sid_with_shell_surface(dict, sid) == unrelate_sid_with("shell_surface_oid", dict, sid)

(* an attach that sends every buffer down the shared-memory path *)
attach_dispatch_alwaysShm(info, sid) == <<Call("attach_shm", info.id, sid)>>

(* attach: the backend-specific coordinator call for a buffer's BufferInfo *)
attach_dispatch(info, sid) ==
    IF info.kind = "Shm" THEN <<Call("attach_shm", info.id, sid)>>
    ELSE IF info.kind = "EglImage" THEN <<Call("attach_egl_image", info.id, sid)>>
    ELSE <<Call("attach_dmabuf", info.id, sid)>>

(* an attach of the null buffer that detaches only a surface with a pending buffer *)
attach_null_onlyPending(sid) ==
    IF sid \in DOMAIN sid_to_surface_info_dict
       /\ sid_to_surface_info_dict[sid].buffer_oid # None
    THEN <<Call("unrelate_surface", sid, 0), Call("detach_surface", sid, 0)>>
    ELSE <<>>

(* attach: the coordinator calls for the null buffer object *)
attach_null(sid) == <<Call("unrelate_surface", sid, 0), Call("detach_surface", sid, 0)>>

(* Facade::attach, for the buffer objects `bufs` *)
AttachOf(bufs) ==
    \E buffer_oid \in bufs, sid \in Sids :
        /\ IF buffer_oid = NullOid
           THEN /\ calls' = attach_null(sid)
                /\ op' = OpR("attach", buffer_oid, sid, 0, "detached")
                /\ UNCHANGED surfVars
           ELSE IF buffer_oid \in DOMAIN buffer_oid_to_info_dict
           THEN /\ sid_to_surface_info_dict' =
                       relate_sid_with_buffer(sid_to_surface_info_dict, sid, buffer_oid)
                /\ calls' = attach_dispatch(buffer_oid_to_info_dict[buffer_oid], sid)
                /\ attached' = attached \cup {sid}
                /\ UNCHANGED <<bindVars, inputVars, phase>>
                /\ op' = OpR("attach", buffer_oid, sid, 0, "attached")
           ELSE /\ calls' = <<>>
                /\ op' = OpR("attach", buffer_oid, sid, 0, "unknown_buffer")
                /\ UNCHANGED surfVars
        /\ sent' = <<>>
        /\ UNCHANGED <<globalVars, managerVars, transferVars, next_serial, poolVars, bufVars, shotVars>>

Attach == AttachOf(BufOids \cup {NullOid, UnknownBuf})

(* an on_surface_frame that discards the record it has emptied *)
clear_pending_dropsRecord(dict, sid) == [s \in DOMAIN dict \ {sid} |-> dict[s]]

(* an on_surface_frame that forgets the frame object and keeps the buffer *)
clear_pending_frameOnly(dict, sid) == [dict EXCEPT ![sid].frame_oid = None]

(* on_surface_frame: both pending slots of the surface's record emptied *)
clear_pending(dict, sid) == [dict EXCEPT ![sid].frame_oid = None, ![sid].buffer_oid = None]

(* Gateway::on_surface_frame *)
OnSurfaceFrame ==
    \E sid \in Sids :
        /\ IF sid \in DOMAIN sid_to_surface_info_dict
           THEN LET info == sid_to_surface_info_dict[sid]
                IN /\ sent' =
                         (IF info.frame_oid # None
                          THEN <<Msg("callback_done", Unwrap(info.frame_oid), 0),
                                 Msg("delete_id", 0, Unwrap(info.frame_oid))>>
                          ELSE <<>>)
                         \o (IF info.buffer_oid # None
                             THEN <<Msg("buffer_release", Unwrap(info.buffer_oid), 0)>>
                             ELSE <<>>)
                   /\ sid_to_surface_info_dict' = clear_pending(sid_to_surface_info_dict, sid)
           ELSE /\ sent' = <<>>
                /\ UNCHANGED sid_to_surface_info_dict
        /\ op' = Op("on_surface_frame", sid, 0, 0)
        /\ calls' = <<>>
        /\ UNCHANGED <<globalVars, managerVars, transferVars, next_serial, poolVars, bufVars, attached, bindVars, inputVars, phase,
                       shotVars>>

NextAttach ==
    \/ CreateMemoryPool
    \/ CreateMemoryView(BufOids)
    \/ CreateEglImage
    \/ ImportDmabuf
    \/ Attach
    \/ OnSurfaceFrame
SpecAttach == Init /\ [][NextAttach]_vars

(* Facade::set_frame, for the frame objects `frame_oids` *)
SetFrameOf(frame_oids) ==
    \E sid \in Sids, frame_oid \in frame_oids :
        /\ sid_to_surface_info_dict' =
               relate_sid_with_frame(sid_to_surface_info_dict, sid, frame_oid)
        /\ op' = Op("set_frame", sid, frame_oid, 0)
        /\ calls' = <<>>
        /\ sent' = <<>>
        /\ UNCHANGED <<globalVars, managerVars, transferVars, next_serial, poolVars, bufVars, shotVars, attached, bindVars,
                       inputVars, phase>>

SetFrame == SetFrameOf(Oids)

NextFrame ==
    \/ CreateEglImage
    \/ Attach
    \/ SetFrame
    \/ OnSurfaceFrame
SpecFrame == Init /\ [][NextFrame]_vars

MsgsOf(seq, name) == {i \in 1 .. Len(seq) : seq[i].msg = name}

(* C16: on_surface_frame(S) sends the frame-done message for S's pending frame
   object if one is recorded and the release for S's pending buffer object if
   one is recorded, and leaves both slots empty; an on_surface_frame(S) that
   follows with no set_frame or attach in between sends nothing. *)
C16_FrameConsumesPendingOnce ==
    [][op'.name = "on_surface_frame" =>
         LET sid == op'.a
             known == sid \in DOMAIN sid_to_surface_info_dict
             frame == IF known THEN sid_to_surface_info_dict[sid].frame_oid ELSE None
             buffer == IF known THEN sid_to_surface_info_dict[sid].buffer_oid ELSE None
         IN /\ Cardinality(MsgsOf(sent', "callback_done")) = (IF frame # None THEN 1 ELSE 0)
            /\ \A i \in MsgsOf(sent', "callback_done") : Some(sent'[i].to) = frame
            /\ Cardinality(MsgsOf(sent', "buffer_release")) = (IF buffer # None THEN 1 ELSE 0)
            /\ \A i \in MsgsOf(sent', "buffer_release") : Some(sent'[i].to) = buffer
            /\ known => /\ sid_to_surface_info_dict'[sid].frame_oid = None
                        /\ sid_to_surface_info_dict'[sid].buffer_oid = None
            /\ (op.name = "on_surface_frame" /\ op.a = sid) => sent' = <<>>]_vars

C16_Witness ==
    /\ op.name = "on_surface_frame"
    /\ Cardinality(MsgsOf(sent, "callback_done")) = 1
    /\ Cardinality(MsgsOf(sent, "buffer_release")) = 1
    /\ sid_to_surface_info_dict[op.a].frame_oid = None
    /\ sid_to_surface_info_dict[op.a].buffer_oid = None

AttachCalls(seq) ==
    Count(seq, "attach_shm") + Count(seq, "attach_egl_image") + Count(seq, "attach_dmabuf")

(* C8: attach of the null buffer object on a surface S that had a non-null
   buffer attached makes exactly one coordinator detach_surface(S) call and no
   attach_shm / attach_egl_image / attach_dmabuf call, and leaves
   buffer_oid_to_info_dict unchanged. *)
C8_NullAttachDetaches ==
    [][(op'.name = "attach" /\ op'.a = NullOid /\ op'.b \in attached) =>
           /\ Count(calls', "detach_surface") = 1
           /\ \E i \in 1 .. Len(calls') : calls'[i] = Call("detach_surface", op'.b, 0)
           /\ AttachCalls(calls') = 0
           /\ buffer_oid_to_info_dict' = buffer_oid_to_info_dict]_vars

C8_Witness ==
    /\ op.name = "attach"
    /\ op.a = NullOid
    /\ op.b \in attached
    /\ Count(calls, "detach_surface") = 1
    /\ \E b \in DOMAIN buffer_oid_to_info_dict :
           sid_to_surface_info_dict[op.b].buffer_oid = Some(b)

(* the coordinator call that the latest successful create_* of a buffer asks for *)
ExpectedAttach(created, sid) ==
    Call(IF created[1] = "Shm" THEN "attach_shm"
         ELSE IF created[1] = "EglImage" THEN "attach_egl_image"
         ELSE "attach_dmabuf",
         created[2], sid)

(* C9: attach(b, S) with a non-null b that has a correlation entry makes exactly
   one coordinator attach call, of the backend kind and with the id recorded by
   the latest successful create_memory_view / create_egl_image / import_dmabuf
   for b, whatever is recorded for S. *)
C9_AttachFollowsBufferKind ==
    (op.name = "attach" /\ op.a # NullOid /\ op.a \in DOMAIN latest) =>
        calls = <<ExpectedAttach(latest[op.a], op.b)>>

C9_Witness ==
    /\ op.name = "attach"
    /\ op.a \in DOMAIN latest
    /\ latest[op.a][1] = "EglImage"
    /\ calls = <<Call("attach_egl_image", latest[op.a][2], op.b)>>
    /\ \E b \in DOMAIN latest :
           /\ b # op.a
           /\ latest[b][1] = "Shm"
           /\ sid_to_surface_info_dict[op.b].buffer_oid = Some(b)

CreateOps == {"create_memory_view", "create_egl_image", "import_dmabuf"}

(* the one entry a buffer object must have after a successful create_* *)
ExpectedEntry(name, mpid, id) ==
    IF name = "create_memory_view" THEN [kind |-> "Shm", mpid |-> mpid, id |-> id]
    ELSE IF name = "create_egl_image" THEN [kind |-> "EglImage", mpid |-> 0, id |-> id]
    ELSE [kind |-> "Dmabuf", mpid |-> 0, id |-> id]

(* C12: create_memory_view, create_egl_image and import_dmabuf on buffer object
   b: when the coordinator returns Some(id) the operation returns Some(id) and
   the table afterwards maps b to the entry of the matching kind with that id,
   every other buffer object keeping its entry; when the coordinator returns
   None the operation returns None and the table is unchanged. *)
C12_CreateRecordsOrLeaves ==
    [][op'.name \in CreateOps =>
         LET answered == calls'[1].b
         IN /\ Len(calls') = 1
            /\ calls'[1].op = op'.name
            /\ op'.c = answered
            /\ IF answered # -1
               THEN /\ DOMAIN buffer_oid_to_info_dict' =
                           DOMAIN buffer_oid_to_info_dict \cup {op'.b}
                    /\ buffer_oid_to_info_dict'[op'.b] =
                           ExpectedEntry(op'.name, op'.a, answered)
                    /\ \A b \in DOMAIN buffer_oid_to_info_dict :
                           b # op'.b => buffer_oid_to_info_dict'[b] = buffer_oid_to_info_dict[b]
               ELSE buffer_oid_to_info_dict' = buffer_oid_to_info_dict]_vars

C12_Witness ==
    /\ op.name = "import_dmabuf"
    /\ op.c # -1
    /\ buffer_oid_to_info_dict[op.b].kind = "Dmabuf"
    /\ \E sid \in DOMAIN sid_to_surface_info_dict :
           sid_to_surface_info_dict[sid].buffer_oid = Some(op.b)
    /\ \E b \in DOMAIN buffer_oid_to_info_dict : buffer_oid_to_info_dict[b].kind = "Shm"

(* C10: after attach(b, S) with a non-null b that has a correlation entry, the
   pending buffer recorded for S is b, whatever S's record held before. *)
C10_AttachRecordsPendingBuffer ==
    (op.name = "attach" /\ op.res = "attached") =>
        sid_to_surface_info_dict[op.b].buffer_oid = Some(op.a)

--------------------------------------------------------------------------
(* Surfaces: binding client surface objects, shell descriptors, relations *)

SurfaceIds == 1 .. MaxSurfaces
Coords == {-MaxCoord, MaxCoord}
PositionDefault == <<0, 0>>

(* ShellSurfaceOid::Shell(oid), ShellSurfaceOid::ZxdgToplevelV6(oid, toplevel);
   the shell objects of a surface object are named after it *)
Shell(oid) == [variant |-> "Shell", oid |-> oid, toplevel |-> 0]
ZxdgToplevelV6(oid, toplevel) == [variant |-> "ZxdgToplevelV6", oid |-> oid, toplevel |-> toplevel]
ShellSurfaceOids(surface_oid) ==
    {Shell(MaxOid + surface_oid),
     ZxdgToplevelV6(MaxOid + surface_oid, 2 * MaxOid + surface_oid)}

(* show_reason::ShowReason: the semantic reasons a surface is shown or hidden for *)
ShowReasons == {1, 2}

(* what the surface operations leave alone *)
surfRest == <<globalVars, managerVars, transferVars, next_serial, poolVars, bufVars, shotVars, attached, inputVars, phase>>

(* create_surface: what the session does with the surface id the coordinator
   answered *)
create_surface(oid, sid) ==
    /\ surface_oid_to_sid_dict' = MapInsert(surface_oid_to_sid_dict, oid, sid)
    /\ sid_to_surface_info_dict' = relate_sid_with_surface(sid_to_surface_info_dict, sid, oid)
    /\ med_sids' = med_sids \cup {sid}
    /\ calls' = <<Call("create_surface", sid, 0), Call("relate_sid_to_client", sid, ClientId)>>
    /\ op' = Op("create_surface", oid, sid, 0)
    /\ sent' = <<>>
    /\ UNCHANGED surfRest

(* Facade::create_surface, for the surface objects `oids`; a client object id
   names a new surface only when it does not name a surface that is still alive *)
CreateSurfaceOf(oids) ==
    \E oid \in oids :
        /\ coord_next_sid <= MaxSurfaces
        /\ oid \in DOMAIN surface_oid_to_sid_dict => surface_oid_to_sid_dict[oid] \notin coord_surfaces
        /\ coord_next_sid' = coord_next_sid + 1
        /\ coord_surfaces' = coord_surfaces \cup {coord_next_sid}
        /\ create_surface(oid, coord_next_sid)

(* Facade::create_surface when the coordinator allocates nothing and answers
   SurfaceId::invalid() *)
CreateSurfaceRefused ==
    \E oid \in Oids :
        /\ oid \in DOMAIN surface_oid_to_sid_dict => surface_oid_to_sid_dict[oid] \notin coord_surfaces
        /\ UNCHANGED <<coord_next_sid, coord_surfaces>>
        /\ create_surface(oid, InvalidSid)

CreateSurface == CreateSurfaceOf(Oids)

(* Facade::destroy_surface, for the surfaces `sids` *)
DestroySurfaceOf(sids) ==
    \E sid \in sids :
        /\ coord_surfaces' = coord_surfaces \ {sid}
        /\ calls' = <<Call("destroy_surface", sid, 0)>>
        /\ op' = Op("destroy_surface", sid, 0, 0)
        /\ sent' = <<>>
        /\ UNCHANGED <<surfRest, sid_to_surface_info_dict, surface_oid_to_sid_dict,
                       coord_next_sid, med_sids>>

DestroySurface == DestroySurfaceOf(SurfaceIds)

(* the body shared by the operations that only call the coordinator for a
   bound surface object *)
SurfaceCall(name, surface_oid, b, c, made) ==
    /\ calls' = IF surface_oid \in DOMAIN surface_oid_to_sid_dict THEN made ELSE <<>>
    /\ op' = Op(name, surface_oid, b, c)
    /\ sent' = <<>>
    /\ UNCHANGED <<surfRest, sid_to_surface_info_dict, bindVars>>

(* Facade::show *)
Show ==
    \E surface_oid \in Oids, reason \in ShowReasons :
      \E shell_surface_oid \in ShellSurfaceOids(surface_oid) :
        /\ IF surface_oid \in DOMAIN surface_oid_to_sid_dict
           THEN LET sid == surface_oid_to_sid_dict[surface_oid]
                IN /\ sid_to_surface_info_dict' =
                          relate_sid_with_shell_surface(sid_to_surface_info_dict, sid,
                                                        shell_surface_oid)
                   /\ calls' = <<Call("show_surface", sid, reason)>>
           ELSE /\ calls' = <<>>
                /\ UNCHANGED sid_to_surface_info_dict
        /\ op' = OpR("show", surface_oid, reason, 0, shell_surface_oid.variant)
        /\ sent' = <<>>
        /\ UNCHANGED <<surfRest, bindVars>>

(* Facade::hide *)
Hide ==
    \E surface_oid \in Oids, reason \in ShowReasons :
        /\ IF surface_oid \in DOMAIN surface_oid_to_sid_dict
           THEN LET sid == surface_oid_to_sid_dict[surface_oid]
                IN /\ calls' = <<Call("hide_surface", sid, reason)>>
                   /\ sid_to_surface_info_dict' =
                          unrelate_sid_with_shell_surface(sid_to_surface_info_dict, sid)
           ELSE /\ calls' = <<>>
                /\ UNCHANGED sid_to_surface_info_dict
        /\ op' = OpR("hide", surface_oid, reason, 0,
                     IF /\ surface_oid \in DOMAIN surface_oid_to_sid_dict
                        /\ surface_oid_to_sid_dict[surface_oid] \in DOMAIN sid_to_surface_info_dict
                        /\ sid_to_surface_info_dict[surface_oid_to_sid_dict[surface_oid]]
                               .shell_surface_oid # None
                     THEN "cleared" ELSE "")
        /\ sent' = <<>>
        /\ UNCHANGED <<surfRest, bindVars>>

(* Facade::set_relative_position *)
SetRelativePosition ==
    \E surface_oid \in Oids, x \in Coords, y \in Coords :
        SurfaceCall("set_relative_position", surface_oid, x, y,
            <<CallAt("set_surface_relative_position",
                     surface_oid_to_sid_dict[surface_oid], <<x, y>>)>>)

(* relate: the coordinator calls once the surface object resolved to sid *)
relate_calls(sid, parent_surface_oid) ==
    (IF parent_surface_oid \in DOMAIN surface_oid_to_sid_dict
     THEN <<Call("relate_surfaces", sid, surface_oid_to_sid_dict[parent_surface_oid])>>
     ELSE <<>>)
    \o <<CallAt("set_surface_relative_position", sid, PositionDefault)>>

(* Facade::relate *)
Relate ==
    \E surface_oid \in Oids, parent_surface_oid \in Oids :
        SurfaceCall("relate", surface_oid, parent_surface_oid, 0,
            relate_calls(surface_oid_to_sid_dict[surface_oid], parent_surface_oid))

(* Facade::unrelate *)
Unrelate ==
    \E surface_oid \in Oids :
        SurfaceCall("unrelate", surface_oid, 0, 0,
            <<Call("unrelate_surface", surface_oid_to_sid_dict[surface_oid], 0)>>)

(* set_as_cursor: the offset handed to the coordinator for a hotspot *)
cursor_offset(hotspot_x, hotspot_y) == <<hotspot_x, hotspot_y>>

(* Facade::set_as_cursor *)
SetAsCursor ==
    \E surface_oid \in Oids, hotspot_x \in Coords, hotspot_y \in Coords :
        SurfaceCall("set_as_cursor", surface_oid, hotspot_x, hotspot_y,
            <<CallAt("set_surface_offset", surface_oid_to_sid_dict[surface_oid],
                     cursor_offset(hotspot_x, hotspot_y)),
              Call("set_surface_as_cursor", surface_oid_to_sid_dict[surface_oid], 0)>>)

NextSurf ==
    \/ CreateSurface
    \/ DestroySurface
    \/ Show
    \/ Hide
    \/ SetRelativePosition
    \/ Relate
    \/ Unrelate
    \/ SetAsCursor
    \/ CreateEglImage
    \/ Attach
SpecSurf == Init /\ [][NextSurf]_vars

(* the operation o references a client object id the session does not know *)
RefersToUnknownObject(o) ==
    \/ /\ o.name \in {"show", "hide", "set_relative_position", "unrelate", "set_as_cursor"}
       /\ o.a \notin DOMAIN surface_oid_to_sid_dict
    \/ /\ o.name = "relate"
       /\ (o.a \notin DOMAIN surface_oid_to_sid_dict \/ o.b \notin DOMAIN surface_oid_to_sid_dict)
    \/ /\ o.name = "attach"
       /\ o.a # NullOid
       /\ o.a \notin DOMAIN buffer_oid_to_info_dict

(* C11: attach with a non-null buffer object that has no correlation entry, and
   show, hide, set_relative_position, relate, unrelate, set_as_cursor with a
   surface object never bound by create_surface, change no session table and
   make no coordinator or mediator call. *)
C11_UnknownObjectIsNoOp ==
    [][RefersToUnknownObject(op') =>
           /\ calls' = <<>>
           /\ UNCHANGED <<sid_to_surface_info_dict, surface_oid_to_sid_dict,
                          buffer_oid_to_info_dict, memory_pools, output_oid_to_id,
                          globals, pointer_oids, keyboard_oids>>]_vars

(* the shell descriptor a show operation o was given *)
DescriptorOf(o) == CHOOSE d \in ShellSurfaceOids(o.a) : d.variant = o.res

(* C21: after show(o, d, reason) on a surface object o bound to surface S, the
   shell descriptor in S's correlation record is d and the coordinator received
   exactly one show_surface(S, reason), whatever S's record held before. *)
C21_ShowRecordsDescriptor ==
    (op.name = "show" /\ op.a \in DOMAIN surface_oid_to_sid_dict) =>
        LET sid == surface_oid_to_sid_dict[op.a]
        IN /\ sid \in DOMAIN sid_to_surface_info_dict
           /\ sid_to_surface_info_dict[sid].shell_surface_oid = Some(DescriptorOf(op))
           /\ calls = <<Call("show_surface", sid, op.b)>>

(* C23: set_as_cursor(o, hotspot) on a surface object o bound to S sets S's
   offset at the coordinator to the negated hotspot (-hotspot_x, -hotspot_y)
   and then marks S as the cursor surface. *)
C23_CursorOffsetIsNegatedHotspot ==
    (op.name = "set_as_cursor" /\ op.a \in DOMAIN surface_oid_to_sid_dict) =>
        LET sid == surface_oid_to_sid_dict[op.a]
        IN calls = <<CallAt("set_surface_offset", sid, <<-op.b, -op.c>>),
                     Call("set_surface_as_cursor", sid, 0)>>

(* one buffer object, enough to give a surface a pending buffer *)
ShellBufOids == {1}

NextShell ==
    \/ CreateSurfaceOf({coord_next_sid})
    \/ Show
    \/ Hide
    \/ CreateEglImageOf(ShellBufOids)
    \/ AttachOf(ShellBufOids)
    \/ SetFrame
SpecShell == Init /\ [][NextShell]_vars

(* C22: hide(o, reason) on a surface object o bound to surface S calls
   hide_surface(S, reason) exactly once and clears only the shell descriptor of
   S's record: the record stays, its surface object, pending buffer and pending
   frame keep their values, and every other surface's record is unchanged. *)
C22_HideClearsOnlyDescriptor ==
    [][(op'.name = "hide" /\ op'.a \in DOMAIN surface_oid_to_sid_dict) =>
           LET sid == surface_oid_to_sid_dict[op'.a]
           IN /\ calls' = <<Call("hide_surface", sid, op'.b)>>
              /\ sid \in DOMAIN sid_to_surface_info_dict
              /\ DOMAIN sid_to_surface_info_dict' = DOMAIN sid_to_surface_info_dict
              /\ \A s \in DOMAIN sid_to_surface_info_dict :
                     sid_to_surface_info_dict'[s] =
                         IF s = sid
                         THEN [sid_to_surface_info_dict[s] EXCEPT !.shell_surface_oid = None]
                         ELSE sid_to_surface_info_dict[s]
              /\ UNCHANGED surface_oid_to_sid_dict]_vars

(* a hide cleared the descriptor of a surface that has a pending buffer and a
   pending frame, while another surface has a descriptor *)
C22_Witness ==
    /\ op.name = "hide"
    /\ op.res = "cleared"
    /\ LET sid == surface_oid_to_sid_dict[op.a]
       IN /\ sid_to_surface_info_dict[sid].shell_surface_oid = None
          /\ sid_to_surface_info_dict[sid].surface_oid = Some(op.a)
          /\ sid_to_surface_info_dict[sid].buffer_oid # None
          /\ sid_to_surface_info_dict[sid].frame_oid # None
          /\ \E other \in DOMAIN sid_to_surface_info_dict \ {sid} :
                 sid_to_surface_info_dict[other].shell_surface_oid # None

NextCreate ==
    \/ CreateSurface
    \/ CreateSurfaceRefused
    \/ DestroySurface
    \/ SetFrame
SpecCreate == Init /\ [][NextCreate]_vars

(* C24: after create_surface(o) returned the surface id sid the coordinator
   allocated, the session maps o to sid, sid's correlation record has surface
   object o, and the mediator was asked to relate sid to this session's client
   id. *)
C24_CreateSurfaceBinds ==
    (op.name = "create_surface" /\ op.b # InvalidSid) =>
        /\ op.a \in DOMAIN surface_oid_to_sid_dict
        /\ surface_oid_to_sid_dict[op.a] = op.b
        /\ op.b \in DOMAIN sid_to_surface_info_dict
        /\ sid_to_surface_info_dict[op.b].surface_oid = Some(op.a)
        /\ op.b \in med_sids
        /\ Call("relate_sid_to_client", op.b, ClientId) \in {calls[i] : i \in 1 .. Len(calls)}

(* a second surface was created for a client object id whose first surface was
   destroyed, after the coordinator had refused a surface once *)
C24_Witness ==
    /\ op.name = "create_surface"
    /\ op.b # InvalidSid
    /\ \E sid \in DOMAIN sid_to_surface_info_dict \ {op.b, InvalidSid} :
           sid_to_surface_info_dict[sid].surface_oid = Some(op.a)
    /\ InvalidSid \in DOMAIN sid_to_surface_info_dict

(* C25: when the coordinator yields no valid surface id, create_surface binds
   nothing: no entry is added to the surface-object table or to the surface
   correlation table, and no relation is registered with the mediator. *)
C25_RefusedSurfaceBindsNothing ==
    [][(op'.name = "create_surface" /\ op'.b = InvalidSid) =>
           /\ UNCHANGED <<surface_oid_to_sid_dict, sid_to_surface_info_dict, med_sids>>
           /\ \A i \in 1 .. Len(calls') : calls'[i].op # "relate_sid_to_client"]_vars

(* one frame object, enough to give a surface a pending frame *)
FrameOids == {1}

NextRecords ==
    \/ CreateSurfaceOf({coord_next_sid})
    \/ DestroySurfaceOf(Sids)
    \/ Show
    \/ Hide
    \/ CreateEglImageOf(ShellBufOids)
    \/ AttachOf(ShellBufOids \cup {NullOid})
    \/ SetFrameOf(FrameOids)
    \/ OnSurfaceFrame
SpecRecords == Init /\ [][NextRecords]_vars

(* C29: no Facade operation and no Gateway callback removes a surface
   correlation record: a record that exists for a surface id exists in every
   later state, also after hide, attach of the null buffer, on_surface_frame
   and destroy_surface have cleared or left its sub-fields. *)
C29_RecordsAreNeverRemoved ==
    [][DOMAIN sid_to_surface_info_dict \subseteq DOMAIN sid_to_surface_info_dict']_vars

(* a frame callback emptied the last pending slots of the record of a destroyed
   surface: the record is still there, holding nothing but the surface object *)
C29_Witness ==
    /\ op.name = "on_surface_frame"
    /\ Len(sent) = 3
    /\ op.a \notin coord_surfaces
    /\ op.a \in DOMAIN sid_to_surface_info_dict
    /\ sid_to_surface_info_dict[op.a] = [SurfaceInfoNew EXCEPT !.surface_oid = Some(op.a)]

--------------------------------------------------------------------------
(* Transfers *)

(* a Transfer, named by the list of data types it offers *)
Transfers == {1, 2}
MimeTypes == {1, 2}
(* the client id of another session of the same process *)
OtherClientId == ClientId + 1

transferRest == <<globalVars, managerVars, poolVars, bufVars, surfVars, shotVars, next_serial>>

(* Facade::set_transfer *)
SetTransfer ==
    \E oid \in Oids, transfer \in Transfers :
        /\ transfers' = MapInsert(transfers, oid, transfer)
        /\ op' = Op("set_transfer", oid, transfer, 0)
        /\ calls' = <<>>
        /\ sent' = <<>>
        /\ UNCHANGED <<data_source_oid, med_transfer_offerer, coord_transfer, transferRest>>

(* a lookup that answers some registered transfer for an object that has none *)
transfers_get_anyRegistered(map, oid) ==
    IF oid \in DOMAIN map THEN Some(map[oid])
    ELSE IF DOMAIN map # {} THEN Some(map[CHOOSE o \in DOMAIN map : TRUE])
    ELSE None

(* self.transfers.get(&oid) *)
transfers_get(map, oid) == IF oid \in DOMAIN map THEN Some(map[oid]) ELSE None

(* a select_transfer that does not tell the mediator *)
select_transfer_keepsOfferer(oid, transfer) ==
    /\ data_source_oid' = Some(oid)
    /\ coord_transfer' = Some(transfer)
    /\ calls' = <<Call("set_transfer", transfer, 0)>>
    /\ UNCHANGED med_transfer_offerer

(* select_transfer: the branch taken when the object has a registered transfer *)
select_transfer(oid, transfer) ==
    /\ data_source_oid' = Some(oid)
    /\ med_transfer_offerer' = Some(ClientId)
    /\ coord_transfer' = Some(transfer)
    /\ calls' = <<Call("register_transfer_offerer", ClientId, 0),
                  Call("set_transfer", transfer, 0)>>

(* Facade::select_transfer *)
SelectTransfer ==
    \E oid \in Oids :
        LET found == transfers_get(transfers, oid)
        IN /\ IF found # None
              THEN /\ select_transfer(oid, Unwrap(found))
                   /\ op' = OpR("select_transfer", oid, 0, 0,
                                IF coord_transfer \notin {None, found} THEN "replaced"
                                ELSE "selected")
              ELSE /\ calls' = <<>>
                   /\ op' = OpR("select_transfer", oid, 0, 0, "not_registered")
                   /\ UNCHANGED <<data_source_oid, med_transfer_offerer, coord_transfer>>
           /\ sent' = <<>>
           /\ UNCHANGED <<transfers, transferRest>>

(* a remove_transfer that also forgets the active source *)
remove_transfer_clearsActive(oid) ==
    /\ transfers' = [o \in DOMAIN transfers \ {oid} |-> transfers[o]]
    /\ data_source_oid' = data_source_oid \ {oid}

(* remove_transfer: self.transfers.remove(&oid) *)
remove_transfer(oid) ==
    /\ transfers' = [o \in DOMAIN transfers \ {oid} |-> transfers[o]]
    /\ UNCHANGED data_source_oid

(* Facade::remove_transfer *)
RemoveTransfer ==
    \E oid \in Oids :
        /\ remove_transfer(oid)
        /\ op' = Op("remove_transfer", oid, 0, 0)
        /\ calls' = <<>>
        /\ sent' = <<>>
        /\ UNCHANGED <<med_transfer_offerer, coord_transfer, transferRest>>

(* Gateway::on_transfer_requested *)
OnTransferRequested ==
    \E mime_type \in MimeTypes :
        /\ sent' = IF data_source_oid # None
                   THEN <<Msg("data_source_send", Unwrap(data_source_oid), mime_type)>>
                   ELSE <<>>
        /\ op' = Op("on_transfer_requested", mime_type, 0, 0)
        /\ calls' = <<>>
        /\ UNCHANGED <<transferVars, transferRest>>

(* select_transfer run by another session: it becomes the mediator's offerer and
   its transfer fills the coordinator's shared slot *)
OtherSelectTransfer ==
    \E transfer \in Transfers :
        /\ med_transfer_offerer' = Some(OtherClientId)
        /\ coord_transfer' = Some(transfer)
        /\ op' = Op("other_select_transfer", transfer, 0, 0)
        /\ calls' = <<>>
        /\ sent' = <<>>
        /\ UNCHANGED <<transfers, data_source_oid, transferRest>>

NextTransfer ==
    \/ SetTransfer
    \/ SelectTransfer
    \/ RemoveTransfer
    \/ OnTransferRequested
    \/ OtherSelectTransfer
SpecTransfer == Init /\ [][NextTransfer]_vars

(* C26: select_transfer(o) on a data-source object o registered by set_transfer
   makes o the session's active transfer source, registers this session's
   client id as the mediator's transfer offerer, and sets the coordinator's
   shared transfer slot to the transfer registered for o, whatever the slot
   held. *)
C26_SelectPromotesRegistered ==
    [][(op'.name = "select_transfer" /\ op'.a \in DOMAIN transfers) =>
           /\ data_source_oid' = Some(op'.a)
           /\ med_transfer_offerer' = Some(ClientId)
           /\ coord_transfer' = Some(transfers[op'.a])
           /\ calls' = <<Call("register_transfer_offerer", ClientId, 0),
                         Call("set_transfer", transfers[op'.a], 0)>>]_vars

(* a select_transfer replaced the transfer the shared slot held *)
C26_Witness ==
    /\ op.name = "select_transfer"
    /\ op.res = "replaced"
    /\ data_source_oid = Some(op.a)
    /\ med_transfer_offerer = Some(ClientId)

(* C27: select_transfer(o) on a data-source object o that has no registration
   (never registered, or removed) changes nothing: the active transfer source,
   the mediator's offerer slot and the coordinator's shared slot keep their
   values. *)
C27_SelectUnregisteredIsNoOp ==
    [][(op'.name = "select_transfer" /\ op'.a \notin DOMAIN transfers) =>
           /\ UNCHANGED <<data_source_oid, med_transfer_offerer, coord_transfer, transfers>>
           /\ calls' = <<>>]_vars

(* a select_transfer of an object another session's selection had displaced and
   whose registration was removed, while another object is registered *)
C27_Witness ==
    /\ op.name = "select_transfer"
    /\ op.res = "not_registered"
    /\ data_source_oid = Some(op.a)
    /\ med_transfer_offerer = Some(OtherClientId)
    /\ coord_transfer # None
    /\ DOMAIN transfers # {}

(* C28: remove_transfer(o) deletes only o's registration: when o is the active
   transfer source the active slot still names o afterwards, it changes only
   with a select_transfer of a registered object, and an on_transfer_requested
   callback is forwarded to the object the active slot names, registered or
   not. *)
C28_RemoveLeavesActiveStale ==
    [][/\ op'.name = "remove_transfer" =>
              /\ transfers' = [o \in DOMAIN transfers \ {op'.a} |-> transfers[o]]
              /\ UNCHANGED <<data_source_oid, med_transfer_offerer, coord_transfer>>
       /\ data_source_oid' # data_source_oid =>
              /\ op'.name = "select_transfer"
              /\ op'.a \in DOMAIN transfers
       /\ op'.name = "on_transfer_requested" =>
              sent' = IF data_source_oid = None THEN <<>>
                      ELSE <<Msg("data_source_send", Unwrap(data_source_oid), op'.a)>>]_vars

(* a request was forwarded to the active source after its registration was
   removed *)
C28_Witness ==
    /\ op.name = "on_transfer_requested"
    /\ data_source_oid # None
    /\ Unwrap(data_source_oid) \notin DOMAIN transfers
    /\ sent = <<Msg("data_source_send", Unwrap(data_source_oid), op.a)>>

--------------------------------------------------------------------------
(* Focus changes and reconfiguration *)

InputOids == 1 .. MaxInputs
Sizes == {<<1, 2>>}
FocusSids == SurfaceIds \cup {InvalidSid}

(* Facade::add_pointer_oid *)
AddPointerOid ==
    \E pointer_oid \in InputOids :
        /\ pointer_oids' = pointer_oids \cup {pointer_oid}
        /\ op' = Op("add_pointer_oid", pointer_oid, 0, 0)
        /\ calls' = <<>>
        /\ sent' = <<>>
        /\ UNCHANGED <<globalVars, managerVars, transferVars, next_serial, poolVars, bufVars, shotVars, sid_to_surface_info_dict,
                       attached, bindVars, keyboard_oids, phase>>

(* Facade::add_keyboard_oid *)
AddKeyboardOid ==
    \E keyboard_oid \in InputOids :
        /\ keyboard_oids' = keyboard_oids \cup {keyboard_oid}
        /\ op' = Op("add_keyboard_oid", keyboard_oid, 0, 0)
        /\ calls' = <<>>
        /\ sent' = <<>>
        /\ UNCHANGED <<globalVars, managerVars, transferVars, next_serial, poolVars, bufVars, shotVars, sid_to_surface_info_dict,
                       attached, bindVars, pointer_oids, phase>>

(* a toplevel that is always told it is active *)
toplevel_states_alwaysActive(sid, maximized, focused_sid) ==
    (IF maximized THEN <<"MAXIMIZED">> ELSE <<>>) \o <<"ACTIVATED">>

(* on_surface_reconfigured: the states of an xdg toplevel *)
toplevel_states(sid, maximized, focused_sid) ==
    (IF maximized THEN <<"MAXIMIZED">> ELSE <<>>)
    \o (IF sid = focused_sid THEN <<"ACTIVATED">> ELSE <<>>)

(* Gateway::on_surface_reconfigured: the messages it sends; focused_sid is what
   coordinator.get_keyboard_focused_sid() answers *)
on_surface_reconfigured(sid, size, maximized, focused_sid) ==
    IF sid \in DOMAIN sid_to_surface_info_dict
       /\ sid_to_surface_info_dict[sid].shell_surface_oid # None
    THEN LET shell_surface == Unwrap(sid_to_surface_info_dict[sid].shell_surface_oid)
         IN IF shell_surface.variant = "Shell"
            THEN <<MsgConfigure("wl_shell_surface_configure", shell_surface.oid, size, <<>>)>>
            ELSE <<MsgConfigure("zxdg_toplevel_v6_configure", shell_surface.toplevel, size,
                                toplevel_states(sid, maximized, focused_sid)),
                   Msg("zxdg_surface_v6_configure", shell_surface.oid, 0)>>
    ELSE <<>>

(* Gateway::on_surface_reconfigured as a callback of its own *)
OnSurfaceReconfigured ==
    \E sid \in SurfaceIds, size \in Sizes, maximized \in BOOLEAN, focused_sid \in FocusSids :
        /\ sent' = on_surface_reconfigured(sid, size, maximized, focused_sid)
        /\ op' = OpR("on_surface_reconfigured", sid, focused_sid, IF maximized THEN 1 ELSE 0, "")
        /\ calls' = <<>>
        /\ UNCHANGED <<globalVars, managerVars, transferVars, next_serial, poolVars, bufVars, shotVars, surfVars>>

(* the surface object recorded for sid, None when sid is invalid or unknown *)
focus_target(sid) ==
    IF sid # InvalidSid /\ sid \in DOMAIN sid_to_surface_info_dict
    THEN sid_to_surface_info_dict[sid].surface_oid
    ELSE None

(* a half that notifies only the pointer object visited first *)
pointer_half_firstOnly(name, order, sid) ==
    IF focus_target(sid) # None /\ order # <<>>
    THEN <<Msg(name, order[1], Unwrap(focus_target(sid)))>>
    ELSE <<>>

(* one half of on_pointer_focus_changed: a message per pointer object, in the
   order the set is visited *)
pointer_half(name, order, sid) ==
    IF focus_target(sid) # None
    THEN [i \in 1 .. Len(order) |-> Msg(name, order[i], Unwrap(focus_target(sid)))]
    ELSE <<>>

(* Gateway::on_pointer_focus_changed *)
OnPointerFocusChanged ==
    \E order \in Orders(pointer_oids), old_sid \in FocusSids, new_sid \in FocusSids :
        /\ sent' = pointer_half("wl_pointer_leave", order, old_sid)
                    \o pointer_half("wl_pointer_enter", order, new_sid)
        /\ op' = Op("on_pointer_focus_changed", old_sid, new_sid, 0)
        /\ calls' = <<>>
        /\ UNCHANGED <<globalVars, managerVars, transferVars, next_serial, poolVars, bufVars, shotVars, surfVars>>

(* on_keyboard_focus_changed: what one pass of a loop body sends for keyboard
   object keyboard_oid; the surface is reconfigured when the coordinator knows it *)
keyboard_pass(name, keyboard_oid, sid, size, maximized, focused_sid) ==
    <<Msg(name, keyboard_oid, Unwrap(focus_target(sid)))>>
    \o (IF sid \in coord_surfaces
        THEN on_surface_reconfigured(sid, size, maximized, focused_sid)
        ELSE <<>>)

(* a half that notifies the keyboard objects whatever the surface id is *)
keyboard_half_anySid(name, order, sid, size, maximized, focused_sid) ==
    [i \in 1 .. Len(order) |->
        Msg(name, order[i], IF focus_target(sid) # None THEN Unwrap(focus_target(sid)) ELSE 0)]

(* one half of on_keyboard_focus_changed: the passes for every keyboard object,
   in the order the set is visited *)
keyboard_half(name, order, sid, size, maximized, focused_sid) ==
    IF focus_target(sid) # None
    THEN LET pass == [k \in keyboard_oids |->
                         keyboard_pass(name, k, sid, size, maximized, focused_sid)]
             n == Len(keyboard_pass(name, 0, sid, size, maximized, focused_sid))
         IN [i \in 1 .. n * Len(order) |-> pass[order[((i - 1) \div n) + 1]][((i - 1) % n) + 1]]
    ELSE <<>>

(* on_keyboard_focus_changed reads the window info of sid and derives a
   configure from it: sid has a surface object and a shell descriptor, the
   coordinator knows it and some keyboard object is bound *)
reconfigures(sid) ==
    /\ focus_target(sid) # None
    /\ keyboard_oids # {}
    /\ sid \in coord_surfaces
    /\ sid_to_surface_info_dict[sid].shell_surface_oid # None

(* Gateway::on_keyboard_focus_changed; maximized: whether the window infos the
   coordinator answers carry MAXIMIZED; focused_sid: the keyboard-focused
   surface the coordinator answers, the old or the new one.  Both are drawn
   only when the handler reads them. *)
OnKeyboardFocusChanged ==
    \E order \in Orders(keyboard_oids), old_sid \in FocusSids, new_sid \in FocusSids,
       size \in Sizes :
      LET read == reconfigures(old_sid) \/ reconfigures(new_sid)
      IN \E maximized \in (IF read THEN BOOLEAN ELSE {FALSE}),
            focused_sid \in (IF read THEN {old_sid, new_sid} ELSE {InvalidSid}) :
        /\ sent' = keyboard_half("wl_keyboard_leave", order, old_sid, size, maximized,
                                 focused_sid)
                    \o keyboard_half("wl_keyboard_enter", order, new_sid, size, maximized,
                                     focused_sid)
        /\ op' = Op("on_keyboard_focus_changed", old_sid, new_sid, 0)
        /\ calls' = <<>>
        /\ UNCHANGED <<globalVars, managerVars, transferVars, next_serial, poolVars, bufVars, shotVars, surfVars>>

(* the focus specifications give the n-th surface the n-th surface object *)
NextFocus ==
    \/ CreateSurfaceOf({coord_next_sid})
    \/ AddPointerOid
    \/ AddKeyboardOid
    \/ OnPointerFocusChanged
    \/ OnKeyboardFocusChanged
SpecFocus == Init /\ [][NextFocus]_vars

NextConfigure ==
    \/ CreateSurfaceOf({coord_next_sid})
    \/ DestroySurface
    \/ Show
    \/ Hide
    \/ AddKeyboardOid
    \/ OnKeyboardFocusChanged
SpecConfigure == Init /\ [][NextConfigure]_vars

NextReconfigure ==
    \/ CreateSurfaceOf({coord_next_sid})
    \/ Show
    \/ Hide
    \/ OnSurfaceReconfigured
SpecReconfigure == Init /\ [][NextReconfigure]_vars

FocusOps == {"on_pointer_focus_changed", "on_keyboard_focus_changed"}
BoundObjects(o) == IF o.name = "on_pointer_focus_changed" THEN pointer_oids ELSE keyboard_oids
Leaves(seq) == {i \in 1 .. Len(seq) : seq[i].msg \in {"wl_pointer_leave", "wl_keyboard_leave"}}
Enters(seq) == {i \in 1 .. Len(seq) : seq[i].msg \in {"wl_pointer_enter", "wl_keyboard_enter"}}
(* the messages at `indices` are one per bound object, each naming surface object `target` *)
OnePerObject(seq, indices, objects, target) ==
    /\ Cardinality(indices) = Cardinality(objects)
    /\ \A o \in objects : \E i \in indices : seq[i].to = o
    /\ \A i \in indices : Some(seq[i].arg) = target

(* C17: for a pointer or keyboard focus change from old = A to new = B, both
   valid and both with a surface object recorded, the focus messages are one
   leave(A) per bound pointer/keyboard object and one enter(B) per bound
   object, every leave before every enter. *)
C17_LeavesBeforeEnters ==
    (/\ op.name \in FocusOps
     /\ focus_target(op.a) # None
     /\ focus_target(op.b) # None)
    => /\ OnePerObject(sent, Leaves(sent), BoundObjects(op), focus_target(op.a))
       /\ OnePerObject(sent, Enters(sent), BoundObjects(op), focus_target(op.b))
       /\ \A i \in Leaves(sent), j \in Enters(sent) : i < j

C17_Witness ==
    /\ op.name = "on_pointer_focus_changed"
    /\ focus_target(op.a) # None
    /\ focus_target(op.b) # None
    /\ op.a # op.b
    /\ Cardinality(pointer_oids) = 2
    /\ Cardinality(Leaves(sent)) = 2
    /\ Cardinality(Enters(sent)) = 2

(* C18: in a pointer or keyboard focus change an invalid surface id skips its
   half: old invalid, no leave and only the enters for new; new invalid, no
   enter and only the leaves for old; both invalid, nothing. *)
C18_InvalidSkipsItsHalf ==
    op.name \in FocusOps =>
        /\ op.a = InvalidSid =>
               /\ Leaves(sent) = {}
               /\ focus_target(op.b) # None =>
                      OnePerObject(sent, Enters(sent), BoundObjects(op), focus_target(op.b))
        /\ op.b = InvalidSid =>
               /\ Enters(sent) = {}
               /\ focus_target(op.a) # None =>
                      OnePerObject(sent, Leaves(sent), BoundObjects(op), focus_target(op.a))
        /\ (op.a = InvalidSid /\ op.b = InvalidSid) => sent = <<>>

C18_Witness ==
    /\ op.name = "on_keyboard_focus_changed"
    /\ op.a = InvalidSid
    /\ focus_target(op.b) # None
    /\ Cardinality(keyboard_oids) = 2
    /\ Cardinality(Enters(sent)) = 2
    /\ Leaves(sent) = {}

(* the configure messages among seq that address the shell descriptor of sid *)
ConfiguresFor(seq, sid) ==
    LET shell_surface == Unwrap(sid_to_surface_info_dict[sid].shell_surface_oid)
    IN {i \in 1 .. Len(seq) :
           \/ /\ shell_surface.variant = "Shell"
              /\ seq[i].msg = "wl_shell_surface_configure"
              /\ seq[i].to = shell_surface.oid
           \/ /\ shell_surface.variant = "ZxdgToplevelV6"
              /\ seq[i].msg = "zxdg_toplevel_v6_configure"
              /\ seq[i].to = shell_surface.toplevel}

(* C19: a keyboard focus change whose old surface is valid, known to the
   session, known to the coordinator and has a shell descriptor bound sends the
   configure message for the old surface, in every session state. *)
C19_OldSurfaceReconfigured ==
    (/\ op.name = "on_keyboard_focus_changed"
     /\ op.a # InvalidSid
     /\ op.a \in DOMAIN sid_to_surface_info_dict
     /\ op.a \in coord_surfaces
     /\ sid_to_surface_info_dict[op.a].shell_surface_oid # None)
    => ConfiguresFor(sent, op.a) # {}

(* C20: on_surface_reconfigured(S, size, flags) sends a configure exactly when
   S has a shell descriptor bound, of the kind the descriptor's variant asks
   for; for an xdg toplevel ACTIVATED is among the states exactly when S is the
   keyboard-focused surface the coordinator answers and MAXIMIZED exactly when
   the flags carry it; with no descriptor nothing is sent; no state changes. *)
C20_ConfigureIffShellBound ==
    [][op'.name = "on_surface_reconfigured" =>
         LET sid == op'.a
             bound == /\ sid \in DOMAIN sid_to_surface_info_dict
                      /\ sid_to_surface_info_dict[sid].shell_surface_oid # None
             shell_surface == Unwrap(sid_to_surface_info_dict[sid].shell_surface_oid)
         IN /\ UNCHANGED <<sid_to_surface_info_dict, surface_oid_to_sid_dict, pointer_oids,
                           keyboard_oids, buffer_oid_to_info_dict, memory_pools>>
            /\ calls' = <<>>
            /\ IF ~bound THEN sent' = <<>>
               ELSE IF shell_surface.variant = "Shell"
               THEN /\ Len(sent') = 1
                    /\ sent'[1].msg = "wl_shell_surface_configure"
                    /\ sent'[1].to = shell_surface.oid
                    /\ sent'[1].size \in Sizes
               ELSE /\ Len(sent') = 2
                    /\ sent'[1].msg = "zxdg_toplevel_v6_configure"
                    /\ sent'[1].to = shell_surface.toplevel
                    /\ sent'[1].size \in Sizes
                    /\ (\E i \in 1 .. Len(sent'[1].states) : sent'[1].states[i] = "ACTIVATED")
                           <=> sid = op'.b
                    /\ (\E i \in 1 .. Len(sent'[1].states) : sent'[1].states[i] = "MAXIMIZED")
                           <=> op'.c = 1
                    /\ sent'[2] = Msg("zxdg_surface_v6_configure", shell_surface.oid, 0)]_vars

C20_Witness ==
    /\ op.name = "on_surface_reconfigured"
    /\ op.a = op.b
    /\ op.c = 1
    /\ Len(sent) = 2
    /\ sent[1].states = <<"MAXIMIZED", "ACTIVATED">>

--------------------------------------------------------------------------
(* Pointer axis *)

(* Axis: discrete steps (Vector of isize) and continuous slide (Slide of f32)
   on the two axes.  The deltas of the model are exactly representable in both
   types and in the i32 of the wire, so the cast `as i32` and the float product
   lose nothing on them. *)
Deltas == {-MaxDelta, 0, MaxDelta}
Slides == {-10 * MaxDelta, 0, 10 * MaxDelta}
Axis(dx, dy, cx, cy) == [discrete |-> [x |-> dx, y |-> dy], continuous |-> [x |-> cx, y |-> cy]]

(* an inversion that flips both axes *)
axis_inverted_bothAxes(axis) ==
    [discrete |-> [x |-> -1 * axis.discrete.x, y |-> -1 * axis.discrete.y],
     continuous |-> [x |-> -1 * axis.continuous.x, y |-> -1 * axis.continuous.y]]

(* on_pointer_axis: the axis after the two assignments that open the handler *)
axis_inverted(axis) ==
    [axis EXCEPT !.discrete.y = -1 * axis.discrete.y,
                 !.continuous.y = -1 * axis.continuous.y]

(* an axis delivery that sends the stop event after every continuous event too *)
axis_scroll_alwaysStops(pointer_oid, axis_type, discrete, continuous) ==
    (IF discrete # 0
     THEN <<MsgAxis("wl_pointer_axis_discrete", pointer_oid, axis_type, discrete)>>
     ELSE <<>>)
    \o (IF continuous # 0
        THEN <<MsgAxis("wl_pointer_axis", pointer_oid, axis_type, continuous)>>
        ELSE <<>>)
    \o <<MsgAxis("wl_pointer_axis_stop", pointer_oid, axis_type, 0)>>

(* on_pointer_axis: what is sent to one pointer object for one axis *)
axis_scroll(pointer_oid, axis_type, discrete, continuous) ==
    (IF discrete # 0
     THEN <<MsgAxis("wl_pointer_axis_discrete", pointer_oid, axis_type, discrete)>>
     ELSE <<>>)
    \o (IF continuous # 0
        THEN <<MsgAxis("wl_pointer_axis", pointer_oid, axis_type, continuous)>>
        ELSE <<MsgAxis("wl_pointer_axis_stop", pointer_oid, axis_type, 0)>>)

(* on_pointer_axis: one pass of the loop over the pointer objects *)
axis_pass(pointer_oid, axis) ==
    axis_scroll(pointer_oid, "VERTICAL_SCROLL", axis.discrete.y, axis.continuous.y)
    \o axis_scroll(pointer_oid, "HORIZONTAL_SCROLL", axis.discrete.x, axis.continuous.x)
    \o <<Msg("wl_pointer_frame", pointer_oid, 0)>>

(* Gateway::on_pointer_axis *)
OnPointerAxis ==
    \E order \in Orders(pointer_oids) :
      \E dx \in Deltas, dy \in Deltas, cx \in Slides, cy \in Slides :
        LET axis == axis_inverted(Axis(dx, dy, cx, cy))
            pass == [k \in pointer_oids |-> axis_pass(k, axis)]
            n == Len(axis_pass(0, axis))
        IN /\ sent' = [i \in 1 .. n * Len(order) |->
                          pass[order[((i - 1) \div n) + 1]][((i - 1) % n) + 1]]
           (* the callback's axis: discrete x, discrete y, continuous x, continuous y *)
           /\ op' = OpR("on_pointer_axis", dx, dy, cx, cy)
           /\ calls' = <<>>
           /\ UNCHANGED <<globalVars, managerVars, transferVars, next_serial, poolVars, bufVars, shotVars, surfVars>>

NextAxis ==
    \/ AddPointerOid
    \/ OnPointerAxis
SpecAxis == Init /\ [][NextAxis]_vars

(* the values of the messages `name` sent to pointer object p about axis_type *)
AxisValues(seq, name, p, axis_type) ==
    {seq[i].arg : i \in {j \in 1 .. Len(seq) :
                           seq[j].msg = name /\ seq[j].to = p /\ seq[j].axis = axis_type}}

(* what a callback value v is emitted as: nothing when it is zero *)
Emitted(v) == IF v = 0 THEN {} ELSE {v}

(* C30: on_pointer_axis negates the vertical component and only the vertical
   one: for every bound pointer object the emitted vertical discrete and
   continuous values are the negation of the callback's values and the
   horizontal values are emitted unchanged (vertical discrete delta 5 is
   emitted as -5). *)
C30_AxisInvertsVerticalOnly ==
    op.name = "on_pointer_axis" =>
        \A p \in pointer_oids :
            /\ AxisValues(sent, "wl_pointer_axis_discrete", p, "VERTICAL_SCROLL") = Emitted(-op.b)
            /\ AxisValues(sent, "wl_pointer_axis", p, "VERTICAL_SCROLL") = Emitted(-op.res)
            /\ AxisValues(sent, "wl_pointer_axis_discrete", p, "HORIZONTAL_SCROLL") = Emitted(op.a)
            /\ AxisValues(sent, "wl_pointer_axis", p, "HORIZONTAL_SCROLL") = Emitted(op.c)

(* a vertical discrete delta of MaxDelta steps with no continuous slide went to
   two pointer objects, together with a horizontal delta *)
C30_Witness ==
    /\ op.name = "on_pointer_axis"
    /\ op.b = MaxDelta
    /\ op.res = 0
    /\ op.a # 0
    /\ Cardinality(pointer_oids) >= 2
    /\ \A p \in pointer_oids :
           /\ AxisValues(sent, "wl_pointer_axis_discrete", p, "VERTICAL_SCROLL") = {-MaxDelta}
           /\ AxisValues(sent, "wl_pointer_axis_stop", p, "VERTICAL_SCROLL") = {0}

(* the kinds of the messages sent to pointer object p, in order *)
KindsTo(seq, p) ==
    LET mine == SelectSeq(seq, LAMBDA m : m.to = p)
    IN [i \in 1 .. Len(mine) |-> <<mine[i].msg, mine[i].axis>>]

(* the kinds one axis is delivered with, for its discrete and continuous delta *)
AxisKinds(axis_type, discrete, continuous) ==
    (IF discrete # 0 THEN << <<"wl_pointer_axis_discrete", axis_type>> >> ELSE <<>>)
    \o << <<IF continuous # 0 THEN "wl_pointer_axis" ELSE "wl_pointer_axis_stop", axis_type>> >>

(* C31: for every bound pointer object on_pointer_axis emits: for the vertical
   axis a discrete event iff the vertical discrete delta is non-zero, then
   exactly one of a continuous event (continuous delta non-zero) or a stop
   event; then the same for the horizontal axis, decided independently; then
   exactly one frame marker, the last message for that pointer object.  Nothing
   is sent to any other object. *)
C31_AxisSequencePerPointer ==
    op.name = "on_pointer_axis" =>
        /\ \A p \in pointer_oids :
               KindsTo(sent, p) =
                   AxisKinds("VERTICAL_SCROLL", op.b, op.res)
                   \o AxisKinds("HORIZONTAL_SCROLL", op.a, op.c)
                   \o << <<"wl_pointer_frame", "">> >>
        /\ \A i \in 1 .. Len(sent) : sent[i].to \in pointer_oids

(* two pointer objects received a vertical discrete event and a stop, then a
   horizontal continuous event without a discrete one, then the frame marker *)
C31_Witness ==
    /\ op.name = "on_pointer_axis"
    /\ op.b # 0 /\ op.res = 0 /\ op.a = 0 /\ op.c # 0
    /\ Cardinality(pointer_oids) >= 2
    /\ \A p \in pointer_oids :
           KindsTo(sent, p) = << <<"wl_pointer_axis_discrete", "VERTICAL_SCROLL">>,
                                 <<"wl_pointer_axis_stop", "VERTICAL_SCROLL">>,
                                 <<"wl_pointer_axis", "HORIZONTAL_SCROLL">>,
                                 <<"wl_pointer_frame", "">> >>

--------------------------------------------------------------------------
(* Keyboard input *)

Keys == {1, 2, 3}
(* mods: Option<KeyMods>, one modifier snapshot or none *)
KeyModsOpt == {None, Some(1)}

(* wl::Socket::get_next_serial: a wrapping counter, the serial after `serial` *)
get_next_serial(serial) == (serial + 1) % (MaxSerial + 1)

(* a pass that sends the modifiers under the serial of the key event *)
keyboard_input_pass_sameSerial(keyboard_oid, serial, mods) ==
    <<Msg("wl_keyboard_key", keyboard_oid, serial)>>
    \o (IF mods # None THEN <<Msg("wl_keyboard_modifiers", keyboard_oid, serial)>> ELSE <<>>)

(* on_keyboard_input: one pass of the loop, the socket's serial being `serial`
   when it starts; a message carries its serial *)
keyboard_input_pass(keyboard_oid, serial, mods) ==
    <<Msg("wl_keyboard_key", keyboard_oid, serial)>>
    \o (IF mods # None
        THEN <<Msg("wl_keyboard_modifiers", keyboard_oid, get_next_serial(serial))>>
        ELSE <<>>)

(* the serial the socket is at when pass number i starts *)
RECURSIVE serial_at(_, _, _)
serial_at(serial, i, per_pass) ==
    IF i <= 1 THEN serial
    ELSE serial_at(IF per_pass = 2 THEN get_next_serial(get_next_serial(serial))
                   ELSE get_next_serial(serial),
                   i - 1, per_pass)

(* Gateway::on_keyboard_input *)
OnKeyboardInput ==
    \E order \in Orders(keyboard_oids), key \in Keys, mods \in KeyModsOpt :
        LET n == IF mods # None THEN 2 ELSE 1
            pass == [i \in 1 .. Len(order) |->
                        keyboard_input_pass(order[i], serial_at(next_serial, i, n), mods)]
        IN /\ sent' = [i \in 1 .. n * Len(order) |-> pass[((i - 1) \div n) + 1][((i - 1) % n) + 1]]
           /\ next_serial' = serial_at(next_serial, Len(order) + 1, n)
           /\ op' = Op("on_keyboard_input", key, IF mods # None THEN 1 ELSE 0, 0)
           /\ calls' = <<>>
           /\ UNCHANGED <<globalVars, managerVars, transferVars, poolVars, bufVars, shotVars, surfVars>>

NextKeys ==
    \/ AddKeyboardOid
    \/ OnKeyboardInput
SpecKeys == Init /\ [][NextKeys]_vars

(* the messages sent to keyboard object k, in order *)
SentTo(seq, k) == SelectSeq(seq, LAMBDA m : m.to = k)

(* C32: on_keyboard_input(key, mods) sends to every bound keyboard object
   exactly one key event and, iff mods is present, exactly one modifiers event
   that follows that object's key event and carries a serial different from the
   key event's; nothing is sent to any other object, so with no bound keyboard
   object nothing is sent. *)
C32_KeyThenModifiers ==
    op.name = "on_keyboard_input" =>
        /\ \A k \in keyboard_oids :
               LET mine == SentTo(sent, k)
               IN /\ Len(mine) = (IF op.b = 1 THEN 2 ELSE 1)
                  /\ mine[1].msg = "wl_keyboard_key"
                  /\ op.b = 1 =>
                         /\ mine[2].msg = "wl_keyboard_modifiers"
                         /\ mine[2].arg # mine[1].arg
        /\ \A i \in 1 .. Len(sent) : sent[i].to \in keyboard_oids

(* a key with a modifier snapshot went to two keyboard objects *)
C32_Witness ==
    /\ op.name = "on_keyboard_input"
    /\ op.b = 1
    /\ Cardinality(keyboard_oids) >= 2
    /\ Len(sent) = 2 * Cardinality(keyboard_oids)
    /\ \A k \in keyboard_oids : Len(SentTo(sent, k)) = 2

--------------------------------------------------------------------------
(* Teardown *)

UnknownPool == MaxPools + 1

(* Facade::destroy_memory_pool, for the pool ids `mpids` *)
DestroyMemoryPoolOf(mpids) ==
    \E mpid \in mpids :
        /\ memory_pools' = memory_pools \ {mpid}
        /\ coord_pools' = coord_pools \ {mpid}
        /\ calls' = <<Call("destroy_memory_pool", mpid, 0)>>
        /\ op' = Op("destroy_memory_pool", mpid, 0, 0)
        /\ sent' = <<>>
        /\ UNCHANGED <<globalVars, managerVars, transferVars, next_serial, coord_next_mpid, bufVars, surfVars, shotVars>>

DestroyMemoryPool == DestroyMemoryPoolOf(PoolIds \cup {UnknownPool})

(* a teardown that releases the pools and forgets the surfaces *)
terminate_calls_poolsOnly(mpids, sids) ==
    [i \in 1 .. Len(mpids) |-> Call("destroy_memory_pool", mpids[i], 0)]

(* terminate: the calls made for the pools and the surfaces in the order visited *)
terminate_calls(mpids, sids) ==
    [i \in 1 .. Len(mpids) |-> Call("destroy_memory_pool", mpids[i], 0)]
    \o [i \in 1 .. 2 * Len(sids) |->
           IF i % 2 = 1 THEN Call("remove", sids[(i + 1) \div 2], 0)
           ELSE Call("destroy_surface", sids[i \div 2], 0)]

(* Proxy::terminate, run by `name`: "terminate" called on the session, or "drop" *)
TerminateAs(name, after) ==
    \E mpids \in Orders(memory_pools), oids \in Orders(DOMAIN surface_oid_to_sid_dict) :
        LET sids == [i \in 1 .. Len(oids) |-> surface_oid_to_sid_dict[oids[i]]]
            gone == {sids[i] : i \in 1 .. Len(sids)}
        IN /\ phase # "dropped"
           /\ calls' = terminate_calls(mpids, sids)
           /\ coord_pools' = coord_pools \ memory_pools
           /\ coord_surfaces' = coord_surfaces \ gone
           /\ med_sids' = med_sids \ gone
           /\ phase' = after
           /\ op' = OpR(name, 0, 0, 0, phase)
           /\ sent' = <<>>
           /\ UNCHANGED <<globalVars, managerVars, transferVars, next_serial, memory_pools, coord_next_mpid, bufVars, shotVars,
                          sid_to_surface_info_dict, attached, surface_oid_to_sid_dict,
                          coord_next_sid, inputVars>>

Terminate == TerminateAs("terminate", "terminated")

(* Drop for Proxy *)
Drop == TerminateAs("drop", "dropped")

(* a dropped session receives no further operation *)
NextTeardown ==
    \/ (phase # "dropped" /\ CreateMemoryPool)
    \/ (phase # "dropped" /\ DestroyMemoryPool)
    \/ (phase # "dropped" /\ CreateSurface)
    \/ (phase # "dropped" /\ DestroySurface)
    \/ Terminate
    \/ Drop
SpecTeardown == Init /\ [][NextTeardown]_vars

CallsOf(seq, name, a) == Cardinality({i \in 1 .. Len(seq) : seq[i].op = name /\ seq[i].a = a})

(* C13: terminate calls coordinator.destroy_memory_pool for every pool the
   session owns at that moment and, for every surface the session created and
   still owns, mediator.remove(sid) and coordinator.destroy_surface(sid); none
   is skipped. *)
C13_TeardownReleasesAll ==
    [][op'.name \in {"terminate", "drop"} =>
           /\ \A mpid \in memory_pools : CallsOf(calls', "destroy_memory_pool", mpid) = 1
           /\ \A sid \in coord_surfaces :
                  /\ CallsOf(calls', "remove", sid) = 1
                  /\ CallsOf(calls', "destroy_surface", sid) = 1
           /\ coord_pools' \cap memory_pools = {}
           /\ coord_surfaces' = {}
           /\ med_sids' \cap coord_surfaces = {}]_vars

C13_Witness ==
    /\ op.name = "terminate"
    /\ op.res = "alive"
    /\ memory_pools # {}
    /\ Cardinality(DOMAIN surface_oid_to_sid_dict) = 2
    /\ Count(calls, "destroy_memory_pool") = 1
    /\ Count(calls, "remove") = 2
    /\ Count(calls, "destroy_surface") = 2

(* C14: a second run of terminate on the same session (an explicit terminate
   followed by another, or by the one performed on drop) issues no further
   destroy_memory_pool, destroy_surface or mediator remove call and leaves the
   coordinator and the mediator as the first run left them. *)
C14_TeardownIdempotent ==
    [][(op'.name \in {"terminate", "drop"} /\ phase = "terminated") =>
           /\ Count(calls', "destroy_memory_pool") = 0
           /\ Count(calls', "destroy_surface") = 0
           /\ Count(calls', "remove") = 0
           /\ UNCHANGED <<coord_pools, coord_surfaces, med_sids>>]_vars

(* C15: destroy_memory_pool(p) with p not among the session's pools (never
   created by it, or already destroyed) changes no session state and makes no
   coordinator call. *)
C15_DestroyAbsentPoolIsNoOp ==
    [][(op'.name = "destroy_memory_pool" /\ op'.a \notin memory_pools) =>
           /\ calls' = <<>>
           /\ UNCHANGED <<memory_pools, buffer_oid_to_info_dict, sid_to_surface_info_dict,
                          surface_oid_to_sid_dict, screenshot_memory>>]_vars

--------------------------------------------------------------------------
(* Screenshot handshake *)

(* Facade::relate_output_oid_with_id *)
RelateOutputOidWithId ==
    \E oid \in OutOids :
      \E id \in {OutputIdOf(oid)} :
        /\ output_oid_to_id' = MapInsert(output_oid_to_id, oid, id)
        /\ op' = Op("relate_output_oid_with_id", oid, id, 0)
        /\ calls' = <<>>
        /\ sent' = <<>>
        /\ UNCHANGED <<globalVars, managerVars, transferVars, next_serial, poolVars, bufVars, surfVars, screenshooter_oid,
                       screenshot_memory, med_screenshoter, outstanding, requesters>>

(* take_screenshot: whether buffer_oid names a shared-memory view *)
IsShmBuffer(buffer_oid) ==
    /\ buffer_oid \in DOMAIN buffer_oid_to_info_dict
    /\ buffer_oid_to_info_dict[buffer_oid].kind = "Shm"

(* a take_screenshot that does not look at the memory it holds *)
ScreenshotAccepted_ignoresMemory(memory, output_oid) ==
    output_oid \in DOMAIN output_oid_to_id

(* take_screenshot: the condition under which the capture is requested *)
ScreenshotAccepted(memory, output_oid) ==
    /\ memory # None
    /\ output_oid \in DOMAIN output_oid_to_id

(* Facade::take_screenshot *)
TakeScreenshot ==
    \E oid \in Oids, output_oid \in OutOids \cup {UnknownOut},
       buffer_oid \in ShotBufOids \cup {UnknownBuf} :
        LET shm == IsShmBuffer(buffer_oid)
            mpid == IF shm THEN buffer_oid_to_info_dict[buffer_oid].mpid ELSE 0
        IN \E reclaimed \in (IF shm THEN CoordDestroyMemoryPool(mpid) ELSE {None}) :
            LET memory == IF shm THEN reclaimed ELSE screenshot_memory
                reclaim == IF shm THEN <<Call("destroy_memory_pool", mpid, OptArg(reclaimed))>>
                           ELSE <<>>
            IN /\ screenshot_memory' = memory
               /\ coord_pools' = IF shm THEN coord_pools \ {mpid} ELSE coord_pools
               /\ IF ScreenshotAccepted(memory, output_oid)
                  THEN /\ outstanding < MaxPending
                       /\ calls' = reclaim \o
                              <<Call("take_screenshot", output_oid_to_id[output_oid], 0),
                                Call("register_screenshoter", ClientId, 0)>>
                       /\ med_screenshoter' = Some(ClientId)
                       /\ screenshooter_oid' = Some(oid)
                       /\ outstanding' = outstanding + 1
                       /\ requesters' = Append(requesters, oid)
                       /\ op' = OpR("take_screenshot", oid, output_oid, 0, "accepted")
                  ELSE /\ calls' = reclaim
                       /\ op' = OpR("take_screenshot", oid, output_oid, 0,
                                     IF memory = None THEN "no_memory" ELSE "no_output")
                       /\ UNCHANGED <<med_screenshoter, screenshooter_oid, outstanding,
                                      requesters>>
               /\ sent' = <<>>
               /\ UNCHANGED <<globalVars, managerVars, transferVars, next_serial, memory_pools, coord_next_mpid, bufVars, surfVars,
                              output_oid_to_id>>

(* on_screenshot_done: what becomes of the copy into the reclaimed memory *)
CopyOutcome(memory, has_buffer, absorb_ok) ==
    IF memory = None THEN "no_memory"
    ELSE IF ~has_buffer THEN "no_buffer"
    ELSE IF absorb_ok THEN "copied" ELSE "copy_error"

(* on_screenshot_done: the messages sent once the copy was tried *)
DoneMessages(requester, outcome) == <<Msg("screenshooter_done", requester, 0)>>

(* Gateway::on_screenshot_done; has_buffer: coordinator.take_screenshot_buffer()
   is Some; absorb_ok: Memory::absorb returns Ok *)
OnScreenshotDone ==
    \E has_buffer \in BOOLEAN, absorb_ok \in BOOLEAN :
        LET asked == IF requesters # <<>> THEN Head(requesters) ELSE 0
            outcome == CopyOutcome(screenshot_memory, has_buffer, absorb_ok)
        IN /\ IF screenshooter_oid # None
              THEN /\ sent' = DoneMessages(Unwrap(screenshooter_oid), outcome)
                   /\ calls' = (IF screenshot_memory # None
                                 THEN <<Call("take_screenshot_buffer", 0, 0)>> ELSE <<>>)
                                \o <<Call("register_screenshoter", -1, 0)>>
                   /\ med_screenshoter' = None
                   /\ op' = OpR("on_screenshot_done", asked, outstanding, 0, outcome)
              ELSE /\ sent' = <<>>
                   /\ calls' = <<>>
                   /\ op' = OpR("on_screenshot_done", asked, outstanding, 0, "ignored")
                   /\ UNCHANGED med_screenshoter
           /\ outstanding' = IF outstanding > 0 THEN outstanding - 1 ELSE 0
           /\ requesters' = IF requesters # <<>> THEN Tail(requesters) ELSE <<>>
           /\ UNCHANGED <<globalVars, managerVars, transferVars, next_serial, poolVars, bufVars, surfVars, output_oid_to_id,
                          screenshooter_oid, screenshot_memory>>

NextShot ==
    \/ CreateMemoryPool
    \/ CreateMemoryView(ShotBufOids)
    \/ RelateOutputOidWithId
    \/ TakeScreenshot
    \/ OnScreenshotDone
SpecShot == Init /\ [][NextShot]_vars

(* C2: a take_screenshot issued while a capture asked by an earlier, accepted
   take_screenshot is still unanswered is rejected: screenshooter_oid stays the
   first request's, register_screenshoter is not called again and the
   coordinator is not asked for a second capture. *)
C2_SecondRequestRejected ==
    [][(op'.name = "take_screenshot" /\ outstanding > 0) =>
           /\ screenshooter_oid' = screenshooter_oid
           /\ Count(calls', "register_screenshoter") = 0
           /\ Count(calls', "take_screenshot") = 0]_vars

(* C3: at most one capture asked of the coordinator is unanswered at any time. *)
C3_AtMostOneOutstanding == outstanding <= 1

(* C4: once a handshake has ended, by on_screenshot_done answering a capture or
   by a local failure inside take_screenshot, the mediator's requester slot is
   None and the session is idle (no capture unanswered). *)
C4_IdleAfterHandshake ==
    (\/ (op.name = "on_screenshot_done" /\ op.b > 0)
     \/ (op.name = "take_screenshot" /\ op.res \in {"no_memory", "no_output"}))
    => (med_screenshoter = None /\ outstanding = 0)

(* C5: take_screenshot asks the coordinator for a capture, registers the session
   with the mediator and records the requester object exactly when the memory
   it holds after the reclaim step is non-empty and the output object resolves
   to an output id; otherwise none of the three happens and nothing but the
   held memory (and the pool reclaimed from the coordinator) changes. *)
C5_CaptureOnlyWithMemoryAndOutput ==
    [][op'.name = "take_screenshot" =>
         IF screenshot_memory' # None /\ op'.b \in DOMAIN output_oid_to_id
         THEN /\ Count(calls', "take_screenshot") = 1
              /\ Count(calls', "register_screenshoter") = 1
              /\ \E i \in 1 .. Len(calls') :
                     calls'[i] = Call("take_screenshot", output_oid_to_id[op'.b], 0)
              /\ \E i \in 1 .. Len(calls') :
                     calls'[i] = Call("register_screenshoter", ClientId, 0)
              /\ screenshooter_oid' = Some(op'.a)
              /\ med_screenshoter' = Some(ClientId)
              /\ outstanding' = outstanding + 1
         ELSE /\ Count(calls', "take_screenshot") = 0
              /\ Count(calls', "register_screenshoter") = 0
              /\ UNCHANGED <<screenshooter_oid, med_screenshoter, outstanding,
                             output_oid_to_id, memory_pools, bufVars, surfVars,
                             globalVars>>
              /\ sent' = <<>>]_vars

C5_Witness ==
    /\ op.name = "take_screenshot"
    /\ op.res = "no_output"
    /\ screenshot_memory # None
    /\ output_oid_to_id # EmptyMap
    /\ Count(calls, "destroy_memory_pool") = 1

(* C6: when on_screenshot_done arrives for an accepted request, exactly one
   capture-finished message is sent, to the requester object that request
   recorded, whatever became of the copy: copied, copy error, screenshot
   buffer missing, or no reclaimed memory held. *)
C6_DoneSentWhateverTheCopy ==
    (op.name = "on_screenshot_done" /\ op.b > 0) =>
        /\ op.res \in {"copied", "copy_error", "no_buffer", "no_memory"}
        /\ sent = <<Msg("screenshooter_done", op.a, 0)>>

(* C7: an on_screenshot_done delivered while no capture is unanswered sends no
   message and does not touch the mediator's requester slot. *)
C7_LateDoneIgnored ==
    (op.name = "on_screenshot_done" /\ op.b = 0) =>
        (sent = <<>> /\ Count(calls, "register_screenshoter") = 0)

--------------------------------------------------------------------------
(***************************************************************************)
(* Directions (qualia/enums.rs) and the command under construction          *)
(* (InnerInputManager as binding_functions::InputContext).                  *)
(***************************************************************************)

(* enum Direction *)
Directions ==
    {"None", "North", "East", "South", "West", "Backward", "Forward", "Begin", "End",
     "Up", "Workspace"}

(* magnitudes the bindings put into a command *)
Magnitudes == {0, 1, 2, 3}

(* Direction::reversed *)
reversed(d) ==
    CASE d = "None" -> "None"
      [] d = "North" -> "South"
      [] d = "East" -> "West"
      [] d = "South" -> "North"
      [] d = "West" -> "South"
      [] d = "Backward" -> "Forward"
      [] d = "Forward" -> "Backward"
      [] d = "Begin" -> "End"
      [] d = "End" -> "Begin"
      [] d = "Up" -> "Up"
      [] d = "Workspace" -> "Workspace"

(* InputContext::set_direction *)
SetDirection ==
    \E direction \in Directions :
        /\ command' = [command EXCEPT !.direction = direction]
        /\ previous_modification' = "Direction"
        /\ op' = Op("set_direction", direction, 0, 0)
        /\ calls' = <<>>
        /\ sent' = <<>>
        /\ UNCHANGED <<globalVars, transferVars, next_serial, poolVars, bufVars, surfVars,
                       shotVars, modes, code>>

(* InputContext::set_magnitude *)
SetMagnitude ==
    \E magnitude \in Magnitudes :
        /\ command' = [command EXCEPT !.magnitude = magnitude]
        /\ previous_modification' = "Magnitude"
        /\ op' = Op("set_magnitude", magnitude, 0, 0)
        /\ calls' = <<>>
        /\ sent' = <<>>
        /\ UNCHANGED <<globalVars, transferVars, next_serial, poolVars, bufVars, surfVars,
                       shotVars, modes, code>>

(* InputContext::clean_command *)
CleanCommand ==
    /\ command' = CommandDefault
    /\ previous_modification' = "None"
    /\ op' = Op("clean_command", 0, 0, 0)
    /\ calls' = <<>>
    /\ sent' = <<>>
    /\ UNCHANGED <<globalVars, transferVars, next_serial, poolVars, bufVars, surfVars,
                   shotVars, modes, code>>

(* the command's direction is reversed: get_direction().reversed() is put back
   with set_direction; op keeps the direction before and the one after *)
ReverseDirection ==
    LET direction == reversed(command.direction) IN
    /\ command' = [command EXCEPT !.direction = direction]
    /\ previous_modification' = "Direction"
    /\ op' = Op("reversed", command.direction, direction, 0)
    /\ calls' = <<>>
    /\ sent' = <<>>
    /\ UNCHANGED <<globalVars, transferVars, next_serial, poolVars, bufVars, surfVars,
                   shotVars, modes, code>>

NextDirection == SetDirection \/ SetMagnitude \/ CleanCommand \/ ReverseDirection

SpecDirection == Init /\ [][NextDirection]_vars

(* the direction opposite to d, for the directions that have one *)
Opposite(d) ==
    CASE d = "North" -> "South"
      [] d = "South" -> "North"
      [] d = "East" -> "West"
      [] d = "West" -> "East"
      [] d = "Backward" -> "Forward"
      [] d = "Forward" -> "Backward"
      [] d = "Begin" -> "End"
      [] d = "End" -> "Begin"
      [] OTHER -> d

(* C33: Direction::reversed is an involution (reversing the reversed direction
   gives the direction back) and it maps North, South, East, West, Backward,
   Forward, Begin and End each to its opposite. *)
C33_ReversedIsInvolution ==
    op.name = "reversed" =>
        /\ reversed(op.b) = op.a
        /\ op.a \in {"North", "South", "East", "West", "Backward", "Forward", "Begin", "End"}
               => op.b = Opposite(op.a)

--------------------------------------------------------------------------
(***************************************************************************)
(* Key bindings: modes, executors and catch (gears/input_manager.rs).       *)
(***************************************************************************)

MaxBindings == 2

(* mode_name: the three default modes and the one the configuration adds *)
ModeNames == {"common", "insert", "normal", "visual"}

(* InputCode and modifier::ModifierType of an input event *)
Codes == {1, 2}
Modifiers == {0, 1}

(* KeyState as InputValue; 2 stands for any other value (key repeat) *)
Released == 0
Pressed == 1
InputValues == {Released, Pressed, 2}

(* Binding::create *)
BindingCreate(input_code, modifiers) == <<input_code, modifiers>>

(* the bindings a configuration holds *)
KeyBindings == {BindingCreate(1, 0), BindingCreate(2, 1)}

(* executors of binding_functions other than Nop *)
Executors == {1, 2}

get_executor_defaultFirst(mode, binding) ==
    IF mode.default_executor # None THEN mode.default_executor
    ELSE IF binding \in DOMAIN mode.bindings THEN Some(mode.bindings[binding])
    ELSE None

(* Mode::get_executor *)
get_executor(mode, binding) ==
    LET executor == IF binding \in DOMAIN mode.bindings
                    THEN Some(mode.bindings[binding]) ELSE None IN
    IF mode.default_executor # None /\ executor = None
    THEN mode.default_executor
    ELSE executor

(* InnerInputManager::find_executor: the loop over self.modes from index i on *)
RECURSIVE find_executor_from(_, _, _)
find_executor_from(mode_list, binding, i) ==
    IF i > Len(mode_list) THEN None
    ELSE IF mode_list[i].active /\ get_executor(mode_list[i], binding) # None
    THEN get_executor(mode_list[i], binding)
    ELSE find_executor_from(mode_list, binding, i + 1)

find_executor(binding) == find_executor_from(modes, binding, 1)

(* index of the first mode with the given name; 0 when there is none *)
FirstNamed(mode_name) ==
    LET named == {i \in 1 .. Len(modes) : modes[i].name = mode_name} IN
    IF named = {} THEN 0 ELSE CHOOSE i \in named : \A j \in named : i <= j

(* Mode::add_binding *)
mode_add_binding(mode, binding, executor) ==
    [mode EXCEPT !.bindings = MapInsert(mode.bindings, binding, executor)]

BindingCount(mode_list) ==
    Cardinality({<<i, b>> \in (1 .. Len(mode_list)) \X KeyBindings :
                    b \in DOMAIN mode_list[i].bindings})

(* InnerInputManager::add_binding *)
AddBinding ==
    \E mode_name \in ModeNames, binding \in KeyBindings, executor \in Executors :
        LET i == FirstNamed(mode_name)
            added == IF i # 0
                     THEN [modes EXCEPT ![i] = mode_add_binding(modes[i], binding, executor)]
                     ELSE Append(modes,
                                 mode_add_binding(ModeNew(FALSE, mode_name, None),
                                                  binding, executor))
        IN  /\ BindingCount(added) <= MaxBindings
            /\ modes' = added
            /\ op' = Op("add_binding", 0, 0, 0)
            /\ calls' = <<>>
            /\ sent' = <<>>
            /\ UNCHANGED <<globalVars, transferVars, next_serial, poolVars, bufVars,
                           surfVars, shotVars, code, command, previous_modification>>

(* InnerInputManager::make_mode_active *)
MakeModeActive ==
    \E mode_name \in ModeNames, active \in BOOLEAN :
        LET i == FirstNamed(mode_name) IN
        /\ modes' = IF i # 0 THEN [modes EXCEPT ![i].active = active] ELSE modes
        /\ op' = Op("make_mode_active", 0, 0, 0)
        /\ calls' = <<>>
        /\ sent' = <<>>
        /\ UNCHANGED <<globalVars, transferVars, next_serial, poolVars, bufVars,
                       surfVars, shotVars, code, command, previous_modification>>

(* InnerInputManager::catch; what the executor does to the manager is the
   executor's business (binding_functions) and is recorded as a call only *)
Catch ==
    \E input_code \in Codes, value \in InputValues, modifiers \in Modifiers :
        LET executor == find_executor(BindingCreate(input_code, modifiers)) IN
        /\ code' = input_code
        /\ calls' = IF executor = None THEN <<>>
                    ELSE IF value = Pressed
                    THEN <<Call("activate", Unwrap(executor), 0)>>
                    ELSE IF value = Released
                    THEN <<Call("release", Unwrap(executor), 0)>>
                    ELSE <<>>
        /\ op' = OpR("catch", input_code, value, modifiers,
                     IF executor = None THEN "Passed" ELSE "Caught")
        /\ sent' = <<>>
        /\ UNCHANGED <<globalVars, transferVars, next_serial, poolVars, bufVars,
                       surfVars, shotVars, modes, command, previous_modification>>

NextCatch == AddBinding \/ MakeModeActive \/ Catch

SpecCatch == Init /\ [][NextCatch]_vars

(* the executor a single mode offers for a binding, as the specification words
   it: the explicit binding, else the default executor, else nothing *)
Offers(mode, binding) ==
    IF binding \in DOMAIN mode.bindings THEN {mode.bindings[binding]}
    ELSE mode.default_executor

(* the active modes that offer an executor for the binding *)
Providers(binding) ==
    {i \in 1 .. Len(modes) : modes[i].active /\ Offers(modes[i], binding) # {}}

(* C40: catch(code, value, modifiers) answers Caught exactly when some active
   mode, in list order common, insert, normal, then the modes added later,
   offers an executor for the binding (code, modifiers), the default executor
   counting when the mode has no explicit binding; the executor of the first
   such mode is activated when the value is Pressed, released when it is
   Released and not run for any other value; with no such mode the answer is
   Passed and no executor runs. *)
C40_CatchUsesFirstActiveMode ==
    op.name = "catch" =>
        LET binding == <<op.a, op.c>>
            providers == Providers(binding)
        IN  /\ Len(modes) >= 3
            /\ <<modes[1].name, modes[2].name, modes[3].name>>
                   = <<"common", "insert", "normal">>
            /\ IF providers = {}
               THEN op.res = "Passed" /\ calls = <<>>
               ELSE LET first == CHOOSE i \in providers : \A j \in providers : i <= j
                        executor == CHOOSE e \in Offers(modes[first], binding) : TRUE
                    IN  /\ op.res = "Caught"
                        /\ calls = IF op.b = Pressed
                                   THEN <<Call("activate", executor, 0)>>
                                   ELSE IF op.b = Released
                                   THEN <<Call("release", executor, 0)>>
                                   ELSE <<>>

(* two active modes bind the pressed key to different executors and the
   earlier mode's executor was activated *)
C40_Witness ==
    /\ op.name = "catch"
    /\ op.b = Pressed
    /\ Cardinality(Providers(<<op.a, op.c>>)) >= 2
    /\ \E i, j \in Providers(<<op.a, op.c>>) :
           /\ i < j
           /\ Offers(modes[i], <<op.a, op.c>>) # Offers(modes[j], <<op.a, op.c>>)
    /\ op.res = "Caught"
    /\ Len(calls) = 1
    /\ calls[1].op = "activate"

--------------------------------------------------------------------------
(***************************************************************************)
(* A session that ends with a screenshot or a transfer under way.           *)
(***************************************************************************)

(* the session creates pools and views, destroys pools it owns, takes
   screenshots, offers transfers, and is dropped once *)
NextSession ==
    \/ (phase # "dropped" /\ CreateMemoryPool)
    \/ (phase # "dropped" /\ CreateMemoryView(ShotBufOids))
    \/ (phase # "dropped" /\ DestroyMemoryPoolOf(memory_pools))
    \/ (phase # "dropped" /\ RelateOutputOidWithId)
    \/ (phase # "dropped" /\ TakeScreenshot)
    \/ (phase # "dropped" /\ OnScreenshotDone)
    \/ (phase # "dropped" /\ SetTransfer)
    \/ (phase # "dropped" /\ SelectTransfer)
    \/ Drop
SpecSession == Init /\ [][NextSession]_vars

(* the pools the coordinator is asked to destroy by the calls of one operation *)
PoolsReleased(seq) == {seq[i].a : i \in {j \in 1 .. Len(seq) : seq[j].op = "destroy_memory_pool"}}

(* C34: every pool is released to the coordinator at most once: a call of
   coordinator.destroy_memory_pool names a pool the coordinator still has, no
   operation releases a pool twice, and a pool that take_screenshot reclaimed is
   not in the session's owned set afterwards (so terminate does not release it
   again). *)
C34_PoolReleasedAtMostOnce ==
    [][/\ PoolsReleased(calls') \subseteq coord_pools
       /\ \A mpid \in PoolsReleased(calls') : CallsOf(calls', "destroy_memory_pool", mpid) = 1
       /\ op'.name = "take_screenshot" => PoolsReleased(calls') \cap memory_pools' = {}]_vars

(* C36: once the session is torn down, the mediator's screenshot requester slot
   and its transfer offerer slot do not name the session's client, also when the
   teardown comes between an accepted take_screenshot and on_screenshot_done, or
   after select_transfer. *)
C36_TeardownClearsMediatorSlots ==
    op.name \in {"terminate", "drop"} =>
        /\ med_screenshoter # Some(ClientId)
        /\ med_transfer_offerer # Some(ClientId)

(* C35: take_screenshot asks for a capture only when the destination buffer of
   this very request is a known shared-memory view and the coordinator handed
   back the memory of its pool in this request; memory kept from an earlier
   request never lets a request with an unknown or non-shm buffer start one. *)
C35_CaptureNeedsOwnReclaim ==
    [][(op'.name = "take_screenshot" /\ Count(calls', "take_screenshot") > 0) =>
           /\ Len(calls') >= 1
           /\ calls'[1].op = "destroy_memory_pool"
           /\ calls'[1].b # -1]_vars

--------------------------------------------------------------------------
(***************************************************************************)
(* Frame callbacks under the assumption that frames keep being drawn.       *)
(***************************************************************************)

(* the frame-ready callback of surface sid *)
OnSurfaceFrameFor(sid) == OnSurfaceFrame /\ op'.a = sid

(* the exhibitor keeps drawing: for every surface, on_surface_frame keeps arriving *)
SpecFrameFair ==
    /\ Init
    /\ [][NextFrame]_vars
    /\ \A sid \in Sids : WF_vars(OnSurfaceFrameFor(sid))

(* the last operation sent frame-done to frame object f *)
FrameDone(f) == \E i \in 1 .. Len(sent) : sent[i].msg = "callback_done" /\ sent[i].to = f

(* set_frame(sid, f) took f as the pending frame object of the surface *)
FrameTaken(f) ==
    /\ op.name = "set_frame"
    /\ op.a \in DOMAIN sid_to_surface_info_dict
    /\ sid_to_surface_info_dict[op.a].frame_oid = Some(f)

(* C37: every frame object f registered with set_frame(S, f) is eventually sent
   frame-done, provided on_surface_frame(S) keeps arriving, also when set_frame
   is called more than once for S before the next on_surface_frame(S). *)
C37_EveryFrameObjectIsAnswered ==
    \A f \in Oids : (op.name = "set_frame" /\ op.b = f) ~> FrameDone(f)

--------------------------------------------------------------------------
(***************************************************************************)
(* Surfaces the client destroys before the session ends.                    *)
(***************************************************************************)

(* the client creates surfaces, shows and hides them, destroys surfaces that
   are alive, and the session is dropped once *)
NextSurfaceEnd ==
    \/ (phase # "dropped" /\ CreateSurface)
    \/ (phase # "dropped" /\ DestroySurfaceOf(coord_surfaces))
    \/ (phase # "dropped" /\ Show)
    \/ (phase # "dropped" /\ Hide)
    \/ Drop
SpecSurfaceEnd == Init /\ [][NextSurfaceEnd]_vars

(* the coordinator calls that name an existing surface in their first argument *)
SurfaceCalls == {"destroy_surface", "show_surface", "hide_surface"}

(* C38: coordinator.destroy_surface is called at most once for a surface id,
   over destroy_surface and teardown together, and once a surface is destroyed
   no coordinator call names it: every such call names a surface the
   coordinator still has, and no operation destroys a surface twice. *)
C38_SurfaceDestroyedAtMostOnce ==
    [][\A i \in 1 .. Len(calls') :
           calls'[i].op \in SurfaceCalls =>
               /\ calls'[i].a \in coord_surfaces
               /\ CallsOf(calls', "destroy_surface", calls'[i].a) <= 1]_vars

(* C39: with fresh surface ids the binding between surface objects and
   surface ids is one-to-one: every entry o -> sid has a record for sid whose
   surface object is o, and no two records name the same surface object, also
   when the client creates a surface under an object id it used before. *)
C39_BindingIsOneToOne ==
    /\ \A o \in DOMAIN surface_oid_to_sid_dict :
           /\ surface_oid_to_sid_dict[o] \in DOMAIN sid_to_surface_info_dict
           /\ sid_to_surface_info_dict[surface_oid_to_sid_dict[o]].surface_oid = Some(o)
    /\ \A s1, s2 \in DOMAIN sid_to_surface_info_dict :
           (s1 # s2 /\ sid_to_surface_info_dict[s1].surface_oid # None)
               => sid_to_surface_info_dict[s1].surface_oid
                      # sid_to_surface_info_dict[s2].surface_oid

==========================================================================
